---- MODULE Spec2Model ----
(***************************************************************************)
(* The OCR pipeline of utils/ocr_engine.py: perform_ocr_on_frame (one      *)
(* frame, three recognition attempts, longest result wins) and             *)
(* perform_ocr_on_frames (the batch loop, its tallies, the cross-frame     *)
(* combined analysis and the fatal-error handler).                         *)
(*                                                                         *)
(* A Python str is a sequence of one-character strings, so that strip(),   *)
(* startswith(), len() and the regular expression are computed, not        *)
(* assumed.                                                                *)
(***************************************************************************)
EXTENDS Integers, Sequences, FiniteSets, TLC

VARIABLES
    frames_paths,   \* the argument of perform_ocr_on_frames
    files,          \* files[i]: os.path.exists(frames_paths[i]) right now
    deleted,        \* positions whose file was removed before the call
    pc,             \* position in perform_ocr_on_frames
    idx,            \* number of loop iterations finished
    ocr_results,    \* the list the loop appends to
    error_count,
    success_count,
    empty_count,
    escaped,        \* an exception left the inner handlers of the batch
    analysis_failed,\* the combined analysis raised and was swallowed
    returned,       \* what perform_ocr_on_frames handed to its caller
    ref,            \* the same call, same engine, with no file removed
    struck,         \* struck[i]: the fault that iteration i of the loop met
    frame_env,      \* what one perform_ocr_on_frame call meets
    frame_ret,      \* what that call returned
    frame_pc,       \* "ready" before the call, "returned" after
    source,         \* the file at image_path
    output_dir,     \* output_dir: whether it exists, the files created in it,
                    \* and the step of lines 35-45 that failed on it, if any
    ext_pc,         \* position in extract_frames_from_image
    frame_idx,      \* the loop variable of the extractor
    saved_paths,    \* the extractor's local list frames_paths
    frame_log,      \* what became of each source frame, in source order
    ext_result,     \* what extract_frames_from_image returned or raised
    second_run,     \* what a second call on the same source returned or raised
    app_pc,         \* position in the /process handler of app.py
    session_paths,  \* session['frames_paths']
    sent,           \* the argument process_frames gave perform_ocr_on_frames
    app_results,    \* the list process_frames answers with
    session,        \* the keys of the Flask session other than frames_paths
    response,       \* the answer to the last request
    history         \* uploads that made a session_id so far; whether
                    \* cleanup ran and no upload succeeded since; how the
                    \* removal of the files went in the last cleanup

vars ==
    <<frames_paths, files, deleted, pc, idx, ocr_results, error_count,
      success_count, empty_count, escaped, analysis_failed, returned, ref,
      struck, frame_env, frame_ret, frame_pc, source, output_dir, ext_pc, frame_idx,
      saved_paths, frame_log, ext_result, second_run, app_pc, session_paths,
      sent, app_results, session, response, history>>

batch_vars ==
    <<frames_paths, files, deleted, pc, idx, ocr_results, error_count,
      success_count, empty_count, escaped, analysis_failed, returned, ref,
      struck>>

frame_vars ==
    <<frame_env, frame_ret, frame_pc>>

extract_vars ==
    <<source, output_dir, ext_pc, frame_idx, saved_paths, frame_log,
      ext_result, second_run>>

app_vars ==
    <<app_pc, session_paths, sent, app_results, session, response, history>>

---------------------------------------------------------------------------
(* Bounds of the model. *)

\* longest frames_paths handed to perform_ocr_on_frames
MaxFrames ==
    3

\* how many frame files may be removed between extraction and recognition
MaxDeleted ==
    1

---------------------------------------------------------------------------
(* Texts of the program. *)

\* the prefix tested by startswith("Error:")
ErrorPrefix ==
    <<"E", "r", "r", "o", "r", ":">>

\* the text "Error: Tesseract OCR is not available"
TESSERACT_UNAVAILABLE ==
    <<"E", "r", "r", "o", "r", ":", " ", "T", "e", "s", "s", "e", "r", "a",
      "c", "t", " ", "O", "C", "R", " ", "i", "s", " ", "n", "o", "t", " ",
      "a", "v", "a", "i", "l", "a", "b", "l", "e">>

\* the text "Error: Frame file not found"
FRAME_NOT_FOUND ==
    <<"E", "r", "r", "o", "r", ":", " ", "F", "r", "a", "m", "e", " ", "f",
      "i", "l", "e", " ", "n", "o", "t", " ", "f", "o", "u", "n", "d">>

\* the text "Error: Frame file is empty"
FRAME_EMPTY ==
    <<"E", "r", "r", "o", "r", ":", " ", "F", "r", "a", "m", "e", " ", "f",
      "i", "l", "e", " ", "i", "s", " ", "e", "m", "p", "t", "y">>

\* the text "Error: Invalid image file: "
INVALID_IMAGE ==
    <<"E", "r", "r", "o", "r", ":", " ", "I", "n", "v", "a", "l", "i", "d",
      " ", "i", "m", "a", "g", "e", " ", "f", "i", "l", "e", ":", " ">>

\* str(img_err), the detail appended to INVALID_IMAGE
IMG_ERR ==
    <<"c", "a", "n", "n", "o", "t", " ", "i", "d", "e", "n", "t", "i", "f",
      "y", " ", "i", "m", "a", "g", "e", " ", "f", "i", "l", "e">>

\* the text "Error: OCR processing failed for this frame"
FRAME_FAILED ==
    <<"E", "r", "r", "o", "r", ":", " ", "O", "C", "R", " ", "p", "r", "o",
      "c", "e", "s", "s", "i", "n", "g", " ", "f", "a", "i", "l", "e", "d",
      " ", "f", "o", "r", " ", "t", "h", "i", "s", " ", "f", "r", "a", "m",
      "e">>

\* the text "No text detected"
NO_TEXT ==
    <<"N", "o", " ", "t", "e", "x", "t", " ", "d", "e", "t", "e", "c", "t",
      "e", "d">>

\* the text "Error: OCR processing failed. Please try a different image."
BATCH_FAILED ==
    <<"E", "r", "r", "o", "r", ":", " ", "O", "C", "R", " ", "p", "r", "o",
      "c", "e", "s", "s", "i", "n", "g", " ", "f", "a", "i", "l", "e", "d",
      ".", " ", "P", "l", "e", "a", "s", "e", " ", "t", "r", "y", " ", "a",
      " ", "d", "i", "f", "f", "e", "r", "e", "n", "t", " ", "i", "m", "a",
      "g", "e", ".">>

\* the text "Combined analysis: Found text pattern '"
COMBINED_HEAD ==
    <<"C", "o", "m", "b", "i", "n", "e", "d", " ", "a", "n", "a", "l", "y",
      "s", "i", "s", ":", " ", "F", "o", "u", "n", "d", " ", "t", "e", "x",
      "t", " ", "p", "a", "t", "t", "e", "r", "n", " ", "'">>

\* the closing quote of the combined-analysis text (line 258)
COMBINED_TAIL ==
    <<"'">>

\* frame_path of the synthetic record (line 257)
COMBINED_PATH ==
    "combined_analysis"

\* shortest run the pattern [A-Za-z0-9]{3,} matches (line 245)
MinRun ==
    3

\* shortest word reported by the combined analysis (line 251)
MinWord ==
    4

---------------------------------------------------------------------------
(* str operations. *)

\* what str.strip() removes
Whitespace ==
    {" ", "\t", "\n", "\r", "\f"}

\* the character class [A-Za-z0-9]
Alnum ==
    {"A", "B", "C", "D", "E", "F", "G", "H", "I", "J", "K", "L", "M", "N",
     "O", "P", "Q", "R", "S", "T", "U", "V", "W", "X", "Y", "Z", "a", "b",
     "c", "d", "e", "f", "g", "h", "i", "j", "k", "l", "m", "n", "o", "p",
     "q", "r", "s", "t", "u", "v", "w", "x", "y", "z", "0", "1", "2", "3",
     "4", "5", "6", "7", "8", "9"}


RECURSIVE lstrip(_)
lstrip(s) ==
    IF s # <<>> /\ Head(s) \in Whitespace THEN lstrip(Tail(s)) ELSE s

RECURSIVE rstrip(_)
rstrip(s) ==
    IF s # <<>> /\ s[Len(s)] \in Whitespace
    THEN rstrip(SubSeq(s, 1, Len(s) - 1))
    ELSE s

strip(s) ==
    rstrip(lstrip(s))

\* startswith with a seeded fault: equality instead of a prefix test
startswith_exact(s, prefix) ==
    s = prefix

\* str.startswith
startswith(s, prefix) ==
    /\ Len(s) >= Len(prefix)
    /\ SubSeq(s, 1, Len(prefix)) = prefix

\* max_scan with a seeded fault: a later item of the same length replaces the best
RECURSIVE max_scan_last(_, _, _)
max_scan_last(items, i, best) ==
    IF i > Len(items) THEN best
    ELSE max_scan_last(items, i + 1,
                       IF Len(items[i]) >= Len(best) THEN items[i] ELSE best)

\* max(items, key=len) from the item after the first on
RECURSIVE max_scan(_, _, _)
max_scan(items, i, best) ==
    IF i > Len(items) THEN best
    ELSE max_scan(items, i + 1,
                  IF Len(items[i]) > Len(best) THEN items[i] ELSE best)

\* max(items, key=len) on a non-empty list: the first item of greatest length
max_len(items) ==
    max_scan(items, 2, items[1])

\* join with a seeded fault: "".join(texts), no space between the texts
RECURSIVE join_unspaced(_)
join_unspaced(texts) ==
    IF texts = <<>> THEN <<>>
    ELSE texts[1] \o join_unspaced(Tail(texts))

\* " ".join(texts)
RECURSIVE join(_)
join(texts) ==
    IF texts = <<>> THEN <<>>
    ELSE IF Len(texts) = 1 THEN texts[1]
    ELSE texts[1] \o <<" ">> \o join(Tail(texts))

\* re.compile(r'[A-Za-z0-9]{3,}').findall(s): scan left to right from
\* position i, one maximal run of class characters per step; a run is a
\* match when its length is >= MinRun
RECURSIVE findall_scan(_, _, _)
findall_scan(s, i, acc) ==
    LET n == Len(s)
        rest == {k \in i..n : s[k] \in Alnum}
    IN  IF rest = {} THEN acc
        ELSE LET b == CHOOSE k \in rest : \A m \in rest : k <= m
                 breaks == {k \in b..n : s[k] \notin Alnum}
                 e == IF breaks = {} THEN n
                      ELSE (CHOOSE k \in breaks : \A m \in breaks : k <= m) - 1
                 run == SubSeq(s, b, e)
             IN  findall_scan(s, e + 1,
                              IF Len(run) >= MinRun THEN Append(acc, run)
                              ELSE acc)

findall(s) ==
    findall_scan(s, 1, <<>>)

---------------------------------------------------------------------------
(* perform_ocr_on_frame: one frame. *)

\* an attempt that raises instead of returning a str
Raises ==
    <<"<exception>">>

\* engine output ""
OutEmpty ==
    <<>>

\* engine output " \n"
OutBlank ==
    <<" ", "\n">>

\* engine output "AB"
OutAB ==
    <<"A", "B">>

\* engine output " CD\n"
OutCD ==
    <<" ", "C", "D", "\n">>

\* engine output "abc\n"
OutAbc ==
    <<"a", "b", "c", "\n">>

\* engine output "C123 extra"
OutC123 ==
    <<"C", "1", "2", "3", " ", "e", "x", "t", "r", "a">>

\* engine output "nothing"
OutNothing ==
    <<"n", "o", "t", "h", "i", "n", "g">>

\* engine output "WXYZ 2024\n"
OutTie ==
    <<"W", "X", "Y", "Z", " ", "2", "0", "2", "4", "\n">>

\* engine output "Error: 4040"
OutErrLike ==
    <<"E", "r", "r", "o", "r", ":", " ", "4", "0", "4", "0">>

\* what pytesseract.image_to_string may hand back for one attempt
Outputs ==
    {OutEmpty, OutBlank, OutAB, OutCD, OutAbc, OutC123, OutNothing, OutTie,
     OutErrLike}

\* how `tesseract --version` may end
Probes ==
    {"ok", "nonzero", "timeout", "missing"}

\* what one call of perform_ocr_on_frame meets: the engine probe, the file
\* system's answers for the frame, Image.open, and the three attempts
FrameEnvs ==
    [probe : Probes,
     exists : BOOLEAN,
     getsize : {"zero", "positive", "raise"},
     open : BOOLEAN,
     ocr : [1..3 -> Outputs \cup {Raises}]]

\* True only when `tesseract --version` exits with code 0
check_tesseract(probe) ==
    probe = "ok"

\* attempt with a seeded fault: `if text:` instead of `if text.strip():`
attempt_unstripped(acc, out) ==
    LET called == Append(acc.calls, "image_to_string")
    IN  IF out = Raises THEN [acc EXCEPT !.calls = called]
        ELSE IF out # <<>>
             THEN [results |-> Append(acc.results, strip(out)),
                   calls |-> called]
             ELSE [acc EXCEPT !.calls = called]

\* one attempt of lines 132-156, on acc = [results, calls]: the engine is
\* invoked; a raise is swallowed, a blank result is left out, anything else
\* is appended stripped
attempt(acc, out) ==
    LET called == Append(acc.calls, "image_to_string")
    IN  IF out = Raises THEN [acc EXCEPT !.calls = called]
        ELSE IF strip(out) # <<>>
             THEN [results |-> Append(acc.results, strip(out)),
                   calls |-> called]
             ELSE [acc EXCEPT !.calls = called]

\* lines 159-167
choose_best(results) ==
    IF results # <<>> THEN max_len(results) ELSE NO_TEXT

\* perform_ocr_on_frame with a seeded fault: the file is looked at before the engine
perform_ocr_on_frame_file_first(env) ==
    LET c1 == <<"exists">>
        c2 == Append(c1, "getsize")
        c3 == Append(c2, "check_tesseract")
        c4 == Append(c3, "open")
        a0 == [results |-> <<>>, calls |-> c4]
        a3 == attempt(attempt(attempt(a0, env.ocr[1]), env.ocr[2]),
                      env.ocr[3])
        ret(text, calls) == [text |-> text, calls |-> calls, raised |-> FALSE]
    IN  IF ~env.exists THEN ret(FRAME_NOT_FOUND, c1)
        ELSE IF env.getsize = "raise" THEN ret(FRAME_FAILED, c2)
        ELSE IF env.getsize = "zero" THEN ret(FRAME_EMPTY, c2)
        ELSE IF ~check_tesseract(env.probe) THEN ret(TESSERACT_UNAVAILABLE, c3)
        ELSE IF ~env.open THEN ret(INVALID_IMAGE \o IMG_ERR, c4)
        ELSE ret(choose_best(a3.results), a3.calls)

\* perform_ocr_on_frame with a seeded fault: a missing file counts as a frame
\* without text
perform_ocr_on_frame_missing_blank(env) ==
    LET c1 == <<"check_tesseract">>
        c2 == Append(c1, "exists")
        c3 == Append(c2, "getsize")
        c4 == Append(c3, "open")
        a0 == [results |-> <<>>, calls |-> c4]
        a3 == attempt(attempt(attempt(a0, env.ocr[1]), env.ocr[2]),
                      env.ocr[3])
        ret(text, calls) == [text |-> text, calls |-> calls, raised |-> FALSE]
    IN  IF ~check_tesseract(env.probe) THEN ret(TESSERACT_UNAVAILABLE, c1)
        ELSE IF ~env.exists THEN ret(NO_TEXT, c2)
        ELSE IF env.getsize = "raise" THEN ret(FRAME_FAILED, c3)
        ELSE IF env.getsize = "zero" THEN ret(FRAME_EMPTY, c3)
        ELSE IF ~env.open THEN ret(INVALID_IMAGE \o IMG_ERR, c4)
        ELSE ret(choose_best(a3.results), a3.calls)

\* perform_ocr_on_frame with a seeded fault: a frame file found empty is
\* removed
perform_ocr_on_frame_removes_empty(env) ==
    LET c1 == <<"check_tesseract">>
        c2 == Append(c1, "exists")
        c3 == Append(c2, "getsize")
        c4 == Append(c3, "open")
        a0 == [results |-> <<>>, calls |-> c4]
        a3 == attempt(attempt(attempt(a0, env.ocr[1]), env.ocr[2]),
                      env.ocr[3])
        ret(text, calls) == [text |-> text, calls |-> calls, raised |-> FALSE]
    IN  IF ~check_tesseract(env.probe) THEN ret(TESSERACT_UNAVAILABLE, c1)
        ELSE IF ~env.exists THEN ret(FRAME_NOT_FOUND, c2)
        ELSE IF env.getsize = "raise" THEN ret(FRAME_FAILED, c3)
        ELSE IF env.getsize = "zero"
             THEN ret(FRAME_EMPTY, Append(c3, "remove"))
        ELSE IF ~env.open THEN ret(INVALID_IMAGE \o IMG_ERR, c4)
        ELSE ret(choose_best(a3.results), a3.calls)

\* perform_ocr_on_frame with a seeded fault: the attempts are not guarded
\* one by one, so the first one that raises ends them and the handler of
\* line 169 answers
perform_ocr_on_frame_unguarded(env) ==
    LET c1 == <<"check_tesseract">>
        c2 == Append(c1, "exists")
        c3 == Append(c2, "getsize")
        c4 == Append(c3, "open")
        a0 == [results |-> <<>>, calls |-> c4]
        a1 == attempt(a0, env.ocr[1])
        a2 == attempt(a1, env.ocr[2])
        a3 == attempt(a2, env.ocr[3])
        ret(text, calls) == [text |-> text, calls |-> calls, raised |-> FALSE]
    IN  IF ~check_tesseract(env.probe) THEN ret(TESSERACT_UNAVAILABLE, c1)
        ELSE IF ~env.exists THEN ret(FRAME_NOT_FOUND, c2)
        ELSE IF env.getsize = "raise" THEN ret(FRAME_FAILED, c3)
        ELSE IF env.getsize = "zero" THEN ret(FRAME_EMPTY, c3)
        ELSE IF ~env.open THEN ret(INVALID_IMAGE \o IMG_ERR, c4)
        ELSE IF env.ocr[1] = Raises THEN ret(INVALID_IMAGE \o IMG_ERR, a1.calls)
        ELSE IF env.ocr[2] = Raises THEN ret(INVALID_IMAGE \o IMG_ERR, a2.calls)
        ELSE IF env.ocr[3] = Raises THEN ret(INVALID_IMAGE \o IMG_ERR, a3.calls)
        ELSE ret(choose_best(a3.results), a3.calls)

\* lines 107-178; calls lists what the function invoked, in order
perform_ocr_on_frame(env) ==
    LET c1 == <<"check_tesseract">>
        c2 == Append(c1, "exists")
        c3 == Append(c2, "getsize")
        c4 == Append(c3, "open")
        a0 == [results |-> <<>>, calls |-> c4]
        a3 == attempt(attempt(attempt(a0, env.ocr[1]), env.ocr[2]),
                      env.ocr[3])
        ret(text, calls) == [text |-> text, calls |-> calls, raised |-> FALSE]
    IN  IF ~check_tesseract(env.probe) THEN ret(TESSERACT_UNAVAILABLE, c1)
        ELSE IF ~env.exists THEN ret(FRAME_NOT_FOUND, c2)
        ELSE IF env.getsize = "raise" THEN ret(FRAME_FAILED, c3)
        ELSE IF env.getsize = "zero" THEN ret(FRAME_EMPTY, c3)
        ELSE IF ~env.open THEN ret(INVALID_IMAGE \o IMG_ERR, c4)
        ELSE ret(choose_best(a3.results), a3.calls)

---------------------------------------------------------------------------
(* perform_ocr_on_frames: the batch. *)

\* names the extractor gave the frame files, in source order
FramePool ==
    <<"frame_0.jpg", "frame_1.jpg", "frame_2.jpg", "frame_3.jpg",
      "frame_4.jpg", "frame_5.jpg">>

\* Where an unexpected exception may strike one loop iteration:
\*   "call"    in perform_ocr_on_frame or in classifying what it returned
\*             (lines 209-212),
\*   "handler" there, and again while the handler assembles its record
\*             (lines 230-235)
Faults ==
    {"none", "call", "handler"}

\* Whether the frame file is there after the calls one perform_ocr_on_frame
\* made on it: os.path.exists, os.path.getsize and Image.open (lines 114,
\* 118, 127) read it and image_to_string reads the opened image; os.remove
\* would take the file away.
RECURSIVE file_after(_, _)
file_after(calls, present) ==
    IF calls = <<>> THEN present
    ELSE file_after(Tail(calls), Head(calls) # "remove" /\ present)

\* The call of line 209 against every environment, tabulated once: what it
\* returns while the frame file exists, what it returns once it is gone, and
\* whether a file that was there is still there after the call.
FrameOutcomes ==
    {[present |-> perform_ocr_on_frame([e EXCEPT !.exists = TRUE]),
      absent |-> perform_ocr_on_frame([e EXCEPT !.exists = FALSE]),
      stays |-> file_after(
                    perform_ocr_on_frame([e EXCEPT !.exists = TRUE]).calls,
                    TRUE)] :
        e \in FrameEnvs}

\* lines 212-218
classify(text) ==
    IF startswith(text, ErrorPrefix) THEN "error"
    ELSE IF text = <<>> \/ text = NO_TEXT THEN "empty"
    ELSE "success"

record(number, path, text) ==
    [frame_number |-> number, frame_path |-> path, text |-> text]

\* lines 200-203
fresh_locals ==
    [ocr_results |-> <<>>, error_count |-> 0, success_count |-> 0,
     empty_count |-> 0, escaped |-> FALSE]

\* tally with a seeded fault: the `elif` branch of line 215 passes without
\* counting
tally_drops_empty(loc, text) ==
    CASE classify(text) = "error" ->
            [loc EXCEPT !.error_count = @ + 1]
      [] classify(text) = "empty" ->
            loc
      [] OTHER ->
            [loc EXCEPT !.success_count = @ + 1]

\* lines 212-218 on the locals
tally(loc, text) ==
    CASE classify(text) = "error" ->
            [loc EXCEPT !.error_count = @ + 1]
      [] classify(text) = "empty" ->
            [loc EXCEPT !.empty_count = @ + 1]
      [] OTHER ->
            [loc EXCEPT !.success_count = @ + 1]

\* frame_handler with a seeded fault: the handler logs and re-raises
frame_handler_reraises(loc, i, frame_path, fails) ==
    [loc EXCEPT !.escaped = TRUE]

\* lines 229-236: the handler of one iteration
frame_handler(loc, i, frame_path, fails) ==
    IF fails THEN [loc EXCEPT !.escaped = TRUE]
    ELSE [loc EXCEPT
            !.ocr_results = Append(@, record(i + 1, frame_path, BATCH_FAILED)),
            !.error_count = @ + 1]

\* loop_body with a seeded fault: a frame whose call raised is counted but gets no
\* record
loop_body_drops(loc, i, frame_path, ret, fault) ==
    IF ret.raised \/ fault \in {"call", "handler"}
    THEN IF fault = "handler" THEN [loc EXCEPT !.escaped = TRUE]
         ELSE [loc EXCEPT !.error_count = @ + 1]
    ELSE [tally(loc, ret.text) EXCEPT
            !.ocr_results = Append(@, record(i + 1, frame_path, ret.text))]

\* lines 207-236: iteration i (0-based) of the loop; ret is what
\* perform_ocr_on_frame did
loop_body(loc, i, frame_path, ret, fault) ==
    IF ret.raised \/ fault \in {"call", "handler"}
    THEN frame_handler(loc, i, frame_path, fault = "handler")
    ELSE [tally(loc, ret.text) EXCEPT
            !.ocr_results = Append(@, record(i + 1, frame_path, ret.text))]

\* line 242: the texts that take part in the combined analysis
analysed_texts(results) ==
    LET keep(r) == ~startswith(r.text, ErrorPrefix) /\ r.text # NO_TEXT
    IN  SelectSeq(results, keep)

texts_of(results) ==
    [k \in 1..Len(results) |-> results[k].text]

\* combined_analysis with a seeded fault: `> 4` instead of `>= 4`
combined_analysis_strict(loc, paths) ==
    IF loc.success_count > 0
    THEN LET all_text == join(texts_of(analysed_texts(loc.ocr_results)))
             words == findall(all_text)
         IN  IF words # <<>> /\ Len(max_len(words)) > MinWord
             THEN Append(loc.ocr_results,
                         record(Len(paths) + 1, COMBINED_PATH,
                                COMBINED_HEAD \o max_len(words)
                                    \o COMBINED_TAIL))
             ELSE loc.ocr_results
    ELSE loc.ocr_results

\* combined_analysis with a seeded fault: the first long word instead of the longest
combined_analysis_first(loc, paths) ==
    IF loc.success_count > 0
    THEN LET all_text == join(texts_of(analysed_texts(loc.ocr_results)))
             words == findall(all_text)
             is_long(w) == Len(w) >= MinWord
             long == SelectSeq(words, is_long)
         IN  IF long # <<>>
             THEN Append(loc.ocr_results,
                         record(Len(paths) + 1, COMBINED_PATH,
                                COMBINED_HEAD \o long[1] \o COMBINED_TAIL))
             ELSE loc.ocr_results
    ELSE loc.ocr_results

\* combined_analysis with a seeded fault: the synthetic record takes the number of
\* the last frame
combined_analysis_renumbers(loc, paths) ==
    IF loc.success_count > 0
    THEN LET all_text == join(texts_of(analysed_texts(loc.ocr_results)))
             words == findall(all_text)
         IN  IF words # <<>> /\ Len(max_len(words)) >= MinWord
             THEN Append(loc.ocr_results,
                         record(Len(paths), COMBINED_PATH,
                                COMBINED_HEAD \o max_len(words)
                                    \o COMBINED_TAIL))
             ELSE loc.ocr_results
    ELSE loc.ocr_results

\* lines 239-261
combined_analysis(loc, paths) ==
    IF loc.success_count > 0
    THEN LET all_text == join(texts_of(analysed_texts(loc.ocr_results)))
             words == findall(all_text)
         IN  IF words # <<>> /\ Len(max_len(words)) >= MinWord
             THEN Append(loc.ocr_results,
                         record(Len(paths) + 1, COMBINED_PATH,
                                COMBINED_HEAD \o max_len(words)
                                    \o COMBINED_TAIL))
             ELSE loc.ocr_results
    ELSE loc.ocr_results

\* fatal_result with a seeded fault: the empty list the docstring speaks of
fatal_result_empty(paths) ==
    <<>>

\* lines 275-279
fatal_result(paths) ==
    <<record(1, IF paths # <<>> /\ Len(paths) > 0 THEN paths[1] ELSE "",
             BATCH_FAILED)>>

locals ==
    [ocr_results |-> ocr_results, error_count |-> error_count,
     success_count |-> success_count, empty_count |-> empty_count,
     escaped |-> escaped]

SetLocals(loc) ==
    /\ ocr_results' = loc.ocr_results
    /\ error_count' = loc.error_count
    /\ success_count' = loc.success_count
    /\ empty_count' = loc.empty_count
    /\ escaped' = loc.escaped

\* the value of `returned` while the call is still running
NotReturned ==
    <<[frame_number |-> 0, frame_path |-> "<pending>", text |-> <<>>]>>

IdleFrame ==
    /\ frame_env = [probe |-> "ok", exists |-> TRUE, getsize |-> "positive",
                    open |-> TRUE, ocr |-> [k \in 1..3 |-> OutEmpty]]
    /\ frame_ret = [text |-> <<>>, calls |-> <<>>, raised |-> FALSE]
    /\ frame_pc = "idle"

IdleExtract ==
    /\ source = [exists |-> FALSE, size |-> "zero", opens |-> FALSE,
                 n_frames |-> 1, mode |-> "RGB"]
    /\ output_dir = [exists |-> FALSE, files |-> {}, failed |-> "none"]
    /\ ext_pc = "idle"
    /\ frame_idx = 0
    /\ saved_paths = <<>>
    /\ frame_log = <<>>
    /\ ext_result = [kind |-> "running", paths |-> <<>>,
                     error |-> [type |-> "none", message |-> ""]]
    /\ second_run = [kind |-> "running", paths |-> <<>>,
                     error |-> [type |-> "none", message |-> ""]]

IdleApp ==
    /\ app_pc = "idle"
    /\ session_paths = <<>>
    /\ sent = <<>>
    /\ app_results = <<>>
    /\ session = [session_id |-> 0, file_path |-> FALSE,
                  ocr_results |-> <<>>, results_of |-> 0]
    /\ response = [route |-> "none", status |-> 0, success |-> FALSE,
                   message |-> "", found |-> 0, called |-> FALSE,
                   results |-> <<>>, of |-> 0]
    /\ history = [uploads |-> 0, cleaned |-> FALSE, removal |-> "none"]

Init ==
    /\ frames_paths \in {SubSeq(FramePool, 1, n) : n \in 0..MaxFrames}
    /\ files = [i \in 1..Len(frames_paths) |-> TRUE]
    /\ deleted = {}
    /\ pc = "start"
    /\ idx = 0
    /\ ocr_results = <<>>
    /\ error_count = 0
    /\ success_count = 0
    /\ empty_count = 0
    /\ escaped = FALSE
    /\ analysis_failed = FALSE
    /\ returned = NotReturned
    /\ ref = [loc |-> fresh_locals, returned |-> NotReturned]
    /\ struck = <<>>
    /\ IdleFrame
    /\ IdleExtract
    /\ IdleApp

\* a frame file is removed after extraction, before perform_ocr_on_frames runs
DeleteFrame ==
    \E i \in 1..Len(frames_paths) :
        /\ pc = "start"
        /\ files[i]
        /\ Cardinality(deleted) < MaxDeleted
        /\ files' = [files EXCEPT ![i] = FALSE]
        /\ deleted' = deleted \cup {i}
        /\ UNCHANGED <<struck, frames_paths, pc, idx, ocr_results, error_count,
                       success_count, empty_count, escaped, analysis_failed,
                       returned, ref, frame_vars, extract_vars, app_vars>>

\* Enter with a seeded fault: an empty argument is treated as a fatal error
Enter_empty_fatal ==
    /\ pc = "start"
    /\ IF frames_paths = <<>>
       THEN /\ pc' = "done"
            /\ returned' = fatal_result(frames_paths)
            /\ ref' = [ref EXCEPT !.returned = fatal_result(frames_paths)]
       ELSE /\ pc' = "loop"
            /\ UNCHANGED <<returned, ref>>
    /\ SetLocals(fresh_locals)
    /\ UNCHANGED <<struck, frames_paths, files, deleted, idx, analysis_failed,
                   frame_vars, extract_vars, app_vars>>

\* lines 191-203: the early return on an empty argument, else the locals
Enter ==
    /\ pc = "start"
    /\ IF frames_paths = <<>>
       THEN /\ pc' = "done"
            /\ returned' = <<>>
            /\ ref' = [ref EXCEPT !.returned = <<>>]
       ELSE /\ pc' = "loop"
            /\ UNCHANGED <<returned, ref>>
    /\ SetLocals(fresh_locals)
    /\ UNCHANGED <<struck, frames_paths, files, deleted, idx, analysis_failed,
                   frame_vars, extract_vars, app_vars>>

\* lines 206-236: one iteration of the loop
Iterate ==
    /\ pc = "loop"
    /\ idx < Len(frames_paths)
    /\ \E o \in FrameOutcomes, fault \in Faults :
          LET frame_path == frames_paths[idx + 1]
              ret == IF files[idx + 1] THEN o.present ELSE o.absent
              ref_ret == IF files[idx + 1] \/ (idx + 1) \in deleted
                         THEN o.present ELSE o.absent
              new == loop_body(locals, idx, frame_path, ret, fault)
          IN  /\ SetLocals(new)
              /\ ref' = [ref EXCEPT !.loc = loop_body(@, idx, frame_path,
                                                      ref_ret, fault)]
              /\ pc' = IF new.escaped THEN "except" ELSE "loop"
              /\ files' = [files EXCEPT ![idx + 1] = @ /\ o.stays]
              /\ struck' = Append(struck, fault)
    /\ idx' = idx + 1
    /\ UNCHANGED <<frames_paths, deleted, analysis_failed, returned,
                   frame_vars, extract_vars, app_vars>>

\* lines 238-261: the combined analysis; a failure inside it is swallowed
Analyse ==
    /\ pc = "loop"
    /\ idx = Len(frames_paths)
    /\ \E fails \in BOOLEAN :
          /\ analysis_failed' = (fails /\ success_count > 0)
          /\ IF fails
             THEN UNCHANGED <<ocr_results, ref>>
             ELSE /\ ocr_results' = combined_analysis(locals, frames_paths)
                  /\ ref' = [ref EXCEPT !.loc.ocr_results =
                                combined_analysis(ref.loc, frames_paths)]
    /\ pc' = "summary"
    /\ UNCHANGED <<struck, frames_paths, files, deleted, idx, error_count,
                   success_count, empty_count, escaped, returned, frame_vars, extract_vars, app_vars>>

\* lines 263-267: the summary and the return
Return ==
    /\ pc = "summary"
    /\ returned' = ocr_results
    /\ ref' = [ref EXCEPT !.returned = ref.loc.ocr_results]
    /\ pc' = "done"
    /\ UNCHANGED <<struck, frames_paths, files, deleted, idx, ocr_results, error_count,
                   success_count, empty_count, escaped, analysis_failed,
                   frame_vars, extract_vars, app_vars>>

\* lines 269-279: the handler of the whole function
Fatal ==
    /\ pc = "except"
    /\ returned' = fatal_result(frames_paths)
    /\ ref' = [ref EXCEPT !.returned = fatal_result(frames_paths)]
    /\ pc' = "done"
    /\ UNCHANGED <<struck, frames_paths, files, deleted, idx, ocr_results, error_count,
                   success_count, empty_count, escaped, analysis_failed,
                   frame_vars, extract_vars, app_vars>>

Next ==
    \/ DeleteFrame
    \/ Enter
    \/ Iterate
    \/ Analyse
    \/ Return
    \/ Fatal

Spec ==
    Init /\ [][Next]_vars

\* one call on frames nobody deletes beforehand
NextCall ==
    \/ Enter
    \/ Iterate
    \/ Analyse
    \/ Return
    \/ Fatal

SpecCall ==
    Init /\ [][NextCall]_vars

---------------------------------------------------------------------------
(* perform_ocr_on_frame on its own: every environment of FrameEnvs. *)

IdleBatch ==
    /\ frames_paths = <<>>
    /\ files = <<>>
    /\ deleted = {}
    /\ pc = "idle"
    /\ idx = 0
    /\ ocr_results = <<>>
    /\ error_count = 0
    /\ success_count = 0
    /\ empty_count = 0
    /\ escaped = FALSE
    /\ analysis_failed = FALSE
    /\ returned = NotReturned
    /\ ref = [loc |-> fresh_locals, returned |-> NotReturned]
    /\ struck = <<>>

InitFrame ==
    /\ IdleBatch
    /\ IdleExtract
    /\ IdleApp
    /\ frame_env \in FrameEnvs
    /\ frame_ret = [text |-> <<>>, calls |-> <<>>, raised |-> FALSE]
    /\ frame_pc = "ready"

CallFrame ==
    /\ frame_pc = "ready"
    /\ frame_ret' = perform_ocr_on_frame(frame_env)
    /\ frame_pc' = "returned"
    /\ UNCHANGED <<frame_env, batch_vars, extract_vars, app_vars>>

NextFrame ==
    CallFrame

SpecFrame ==
    InitFrame /\ [][NextFrame]_vars

---------------------------------------------------------------------------
(* extract_frames_from_image of utils/image_processor.py. *)

\* most frames a source declares (n_frames)
MaxSourceFrames ==
    3

\* the argument image_path
image_path ==
    "upload.gif"

\* line 42: os.path.join(output_dir, '.write_test')
test_file ==
    ".write_test"

\* lines 107-108: the name of the file of frame frame_idx (the uuid part only
\* makes it new to the directory)
frame_filename(idx_) ==
    "frame_" \o ToString(idx_) \o ".jpg"

\* a file in output_dir: its name, whether it holds bytes, and for a frame
\* file the image that was encoded into it
file(name, size, image) ==
    [name |-> name, size |-> size, image |-> image]

\* an image in memory: the source frame it shows, its mode, and the
\* enhancement passes applied to it so far
picture(idx_, mode, passes) ==
    [index |-> idx_, mode |-> mode, passes |-> passes]

NoPicture ==
    picture(-1, "none", <<>>)

\* line 24
NotFoundError ==
    [type |-> "FileNotFoundError",
     message |-> "Image file not found: " \o image_path]

\* line 30
EmptySourceError ==
    [type |-> "ValueError",
     message |-> "Image file is empty: " \o image_path]

\* line 49; perm_err is the text of the error the probe met
PermissionDeniedError(perm_err) ==
    [type |-> "PermissionError",
     message |-> "Cannot write to output directory: " \o perm_err]

\* line 139: whatever the inner block raised, wrapped
InvalidImageError(img_err) ==
    [type |-> "ValueError",
     message |-> "Invalid image file: " \o img_err]

\* line 135
NoFramesMessage ==
    "No frames could be extracted from the image"

NoError ==
    [type |-> "none", message |-> ""]

\* What os.makedirs (line 38) can raise: an OSError whose class follows the
\* errno; PermissionError is one of them (EACCES), others are not (a path
\* component that is a regular file, a read-only file system).
MakedirsErrors ==
    {[type |-> "PermissionError", message |-> "[Errno 13] Permission denied"],
     [type |-> "NotADirectoryError", message |-> "[Errno 20] Not a directory"]}

\* The sources: missing, zero bytes, not an image, or an image of n_frames
\* frames in some mode.
Modes ==
    {"RGB", "P"}

Sources ==
    {[exists |-> FALSE, size |-> "zero", opens |-> FALSE, n_frames |-> 1,
      mode |-> "RGB"],
     [exists |-> TRUE, size |-> "zero", opens |-> FALSE, n_frames |-> 1,
      mode |-> "RGB"],
     [exists |-> TRUE, size |-> "positive", opens |-> FALSE, n_frames |-> 1,
      mode |-> "RGB"]}
    \cup
    {[exists |-> TRUE, size |-> "positive", opens |-> TRUE, n_frames |-> n,
      mode |-> m] : n \in 1..MaxSourceFrames, m \in Modes}

\* What one frame meets in lines 76-118:
\*   pre     "seek", "copy", "convert": the step that raises before the
\*           enhancement; "ok": none does
\*   fail_at the enhancement pass that raises (1 contrast, 2 sharpness,
\*           3 brightness), 0 when none does
\*   save    "ok": frame.save writes the file; "raises": it raises and leaves
\*           no file; "zero": it returns and the file holds no bytes;
\*           "missing": it returns and there is no file
FrameFates ==
    {[pre |-> p, fail_at |-> 0, save |-> "ok"] :
        p \in {"seek", "copy", "convert"}}
    \cup
    {[pre |-> "ok", fail_at |-> k, save |-> s] :
        k \in 0..3, s \in {"ok", "raises", "zero", "missing"}}

\* the fates a frame of this source can meet: seek is only called on a
\* multi-frame source (line 78), convert only on an RGBA or palette frame
\* (line 86)
FatesOf(src) ==
    {f \in FrameFates :
        /\ f.pre = "seek" => src.n_frames > 1
        /\ f.pre = "convert" => src.mode \in {"RGBA", "P"}}

\* lines 85-87
convert(frame) ==
    IF frame.mode = "RGBA" \/ frame.mode = "P"
    THEN [frame EXCEPT !.mode = "RGB"]
    ELSE frame

\* lines 93, 97, 101, in this order
Passes ==
    <<"contrast", "sharpness", "brightness">>

\* lines 91-104 from pass k on: each pass that succeeds rebinds `frame`; the
\* pass that raises ends the block, and the handler of line 103 leaves
\* `frame` as the passes before it made it
RECURSIVE enhance_passes(_, _, _)
enhance_passes(frame, k, fail_at) ==
    IF k > Len(Passes) \/ k = fail_at THEN frame
    ELSE enhance_passes([frame EXCEPT !.passes = Append(@, Passes[k])],
                        k + 1, fail_at)

apply_enhancements(frame, fail_at) ==
    enhance_passes(frame, 1, fail_at)

\* line 111: frame.save(frame_path, "JPEG", quality=95) on the directory
save(files_, name, frame, how) ==
    CASE how = "ok" -> files_ \cup {file(name, "positive", frame)}
      [] how = "zero" -> files_ \cup {file(name, "zero", NoPicture)}
      [] OTHER -> files_

\* line 114: os.path.exists(frame_path) and os.path.getsize(frame_path) != 0
verified(files_, name) ==
    \E f \in files_ : f.name = name /\ f.size # "zero"

\* extract_frame with a seeded fault: the `continue` of line 116 is missing,
\* a frame that failed its verification is listed all the same
extract_frame_lists_unverified(st, idx_, src, fate) ==
    IF fate.pre # "ok"
    THEN st
    ELSE LET frame == apply_enhancements(
                          convert(picture(idx_, src.mode, <<>>)),
                          fate.fail_at)
             frame_path == frame_filename(idx_)
             written == save(st.files, frame_path, frame, fate.save)
         IN  IF fate.save = "raises" THEN st
             ELSE [saved_paths |-> Append(st.saved_paths, frame_path),
                   files |-> written]

\* lines 76-126: one iteration of the frame loop on st, the local list
\* frames_paths and the files of output_dir
extract_frame(st, idx_, src, fate) ==
    IF fate.pre # "ok"
    THEN st
    ELSE LET frame == apply_enhancements(
                          convert(picture(idx_, src.mode, <<>>)),
                          fate.fail_at)
             frame_path == frame_filename(idx_)
             written == save(st.files, frame_path, frame, fate.save)
         IN  IF fate.save = "raises" THEN st
             ELSE IF ~verified(written, frame_path)
                  THEN [st EXCEPT !.files = written]
                  ELSE [saved_paths |-> Append(st.saved_paths, frame_path),
                        files |-> written]

\* summary with a seeded fault: `> 1` instead of `> 0`, a single saved frame
\* counts as none
summary_needs_two(paths) ==
    IF Len(paths) > 1
    THEN [kind |-> "returned", paths |-> paths, error |-> NoError]
    ELSE [kind |-> "raised", paths |-> <<>>,
          error |-> InvalidImageError(NoFramesMessage)]

\* summary with a seeded fault: the list is returned whatever its length
summary_returns_empty(paths) ==
    [kind |-> "returned", paths |-> paths, error |-> NoError]

\* What became of a frame that met `fate`: the step that lost it ("seek",
\* "copy", "convert", or a save that "raises", leaves "zero" bytes or leaves
\* the file "missing"), or "no" when it was saved and listed, and then the
\* enhancement pass that failed on it (0 for none). For a lost frame only
\* the step that lost it is kept.
became(fate) ==
    IF fate.pre # "ok" THEN [lost |-> fate.pre, failed_pass |-> 0]
    ELSE IF fate.save # "ok" THEN [lost |-> fate.save, failed_pass |-> 0]
    ELSE [lost |-> "no", failed_pass |-> fate.fail_at]

\* lines 128-143: the list, or the ValueError of line 135 as line 139
\* re-raises it
summary(paths) ==
    IF Len(paths) > 0
    THEN [kind |-> "returned", paths |-> paths, error |-> NoError]
    ELSE [kind |-> "raised", paths |-> <<>>,
          error |-> InvalidImageError(NoFramesMessage)]

raised(err) ==
    [kind |-> "raised", paths |-> <<>>, error |-> err]

Running ==
    [kind |-> "running", paths |-> <<>>, error |-> NoError]

InitExtract ==
    /\ IdleBatch
    /\ IdleFrame
    /\ IdleApp
    /\ source \in Sources
    /\ output_dir \in {[exists |-> e, files |-> {}, failed |-> "none"] :
                        e \in BOOLEAN}
    /\ ext_pc = "start"
    /\ frame_idx = 0
    /\ saved_paths = <<>>
    /\ frame_log = <<>>
    /\ ext_result = Running
    /\ second_run = Running

\* an action of the extractor leaves the rest alone
OutsideExtractor ==
    UNCHANGED <<batch_vars, frame_vars, app_vars, source, second_run>>

\* lines 21-30: the source exists and holds bytes
ValidateSource ==
    /\ ext_pc = "start"
    /\ IF ~source.exists
       THEN /\ ext_result' = raised(NotFoundError)
            /\ ext_pc' = "raised"
       ELSE IF source.size = "zero"
       THEN /\ ext_result' = raised(EmptySourceError)
            /\ ext_pc' = "raised"
       ELSE /\ ext_pc' = "mkdir"
            /\ UNCHANGED ext_result
    /\ UNCHANGED <<output_dir, frame_idx, saved_paths, frame_log>>
    /\ OutsideExtractor

\* lines 35-38: os.makedirs when output_dir is not there; what it raises
\* reaches the caller as it is
EnsureDir ==
    /\ ext_pc = "mkdir"
    /\ IF output_dir.exists
       THEN /\ ext_pc' = "probe"
            /\ UNCHANGED <<output_dir, ext_result>>
       ELSE \/ /\ output_dir' = [output_dir EXCEPT !.exists = TRUE]
               /\ ext_pc' = "probe"
               /\ UNCHANGED ext_result
            \/ \E err \in MakedirsErrors :
                  /\ ext_result' = raised(err)
                  /\ ext_pc' = "raised"
                  /\ output_dir' = [output_dir EXCEPT !.failed = "makedirs"]
    /\ UNCHANGED <<frame_idx, saved_paths, frame_log>>
    /\ OutsideExtractor

\* lines 40-49: the marker is written and removed; a failure of open, of
\* write or of os.remove is re-raised as PermissionError
ProbeWrite ==
    /\ ext_pc = "probe"
    /\ \E how \in {"ok", "open", "write", "remove"} :
          /\ output_dir' =
                CASE how = "ok" -> output_dir
                  [] how = "open" ->
                        [output_dir EXCEPT !.failed = how]
                  [] how = "write" ->
                        [output_dir EXCEPT !.failed = how, !.files =
                            @ \cup {file(test_file, "zero", NoPicture)}]
                  [] how = "remove" ->
                        [output_dir EXCEPT !.failed = how, !.files =
                            @ \cup {file(test_file, "positive", NoPicture)}]
          /\ IF how = "ok"
             THEN /\ ext_pc' = "open"
                  /\ UNCHANGED ext_result
             ELSE /\ ext_result' = raised(PermissionDeniedError(how))
                  /\ ext_pc' = "raised"
    /\ UNCHANGED <<frame_idx, saved_paths, frame_log>>
    /\ OutsideExtractor

\* lines 56-66: Image.open; its failure leaves as the ValueError of line 139
OpenImage ==
    /\ ext_pc = "open"
    /\ IF source.opens
       THEN /\ ext_pc' = "frames"
            /\ UNCHANGED ext_result
       ELSE /\ ext_result' = raised(InvalidImageError(
                                        "cannot identify image file"))
            /\ ext_pc' = "raised"
    /\ UNCHANGED <<output_dir, frame_idx, saved_paths, frame_log>>
    /\ OutsideExtractor

\* lines 73-126: one frame
ProcessFrame ==
    /\ ext_pc = "frames"
    /\ frame_idx < source.n_frames
    /\ \E fate \in FatesOf(source) :
          LET st == extract_frame([saved_paths |-> saved_paths,
                                   files |-> output_dir.files],
                                  frame_idx, source, fate)
          IN  /\ saved_paths' = st.saved_paths
              /\ output_dir' = [output_dir EXCEPT !.files = st.files]
              /\ frame_log' = Append(frame_log, became(fate))
    /\ frame_idx' = frame_idx + 1
    /\ UNCHANGED <<ext_pc, ext_result>>
    /\ OutsideExtractor

\* lines 128-143
Finish ==
    /\ ext_pc = "frames"
    /\ frame_idx = source.n_frames
    /\ ext_result' = summary(saved_paths)
    /\ ext_pc' = ext_result'.kind
    /\ UNCHANGED <<output_dir, frame_idx, saved_paths, frame_log>>
    /\ OutsideExtractor

NextExtract ==
    \/ ValidateSource
    \/ EnsureDir
    \/ ProbeWrite
    \/ OpenImage
    \/ ProcessFrame
    \/ Finish

SpecExtract ==
    InitExtract /\ [][NextExtract]_vars

---------------------------------------------------------------------------
(* extract_frames_from_image called a second time on the same source. *)

\* lines 73-126 from frame idx_ on: the loop over the declared frames, frame
\* i meeting fates[i + 1]
RECURSIVE extract_loop(_, _, _, _)
extract_loop(st, idx_, src, fates) ==
    IF idx_ >= src.n_frames THEN st
    ELSE extract_loop(extract_frame(st, idx_, src, fates[idx_ + 1]),
                      idx_ + 1, src, fates)

\* extract_frames with a seeded fault: `break` instead of `continue`, the
\* first frame that cannot be saved ends the loop
extract_frames_stops_at_drop(src, fates) ==
    LET start == [saved_paths |-> <<>>, files |-> {}]
        upto(n) == extract_loop(start, 0, [src EXCEPT !.n_frames = n], fates)
        dropped == {n \in 1..src.n_frames :
                      Len(upto(n).saved_paths) = Len(upto(n - 1).saved_paths)}
        last == IF dropped = {} THEN src.n_frames
                ELSE CHOOSE n \in dropped : \A m \in dropped : n <= m
    IN  summary(upto(last).saved_paths)

\* lines 51-135 as one call into an empty, writable directory: the local
\* list starts empty (line 52), every declared frame goes through the loop,
\* and the summary returns the list or raises
extract_frames(src, fates) ==
    LET start == [saved_paths |-> <<>>, files |-> {}]
    IN  summary(extract_loop(start, 0, src, fates).saved_paths)

\* The codec behaving on frame i as the log says it did the first time:
\* the same step loses the frame, or the same enhancement pass fails on it;
\* k is the pass that fails on a frame lost at its save, which the log does
\* not keep.
same_behaviour(log, k) ==
    [i \in 1..Len(log) |->
        CHOOSE f \in FrameFates :
            /\ became(f) = log[i]
            /\ (f.pre = "ok" /\ f.save # "ok") => f.fail_at = k]

\* The caller runs extract_frames_from_image again on the unchanged source,
\* into a fresh output directory; the directory is writable or the probe of
\* lines 41-49 fails again, and the codec behaves as it did the first time.
ExtractAgain ==
    /\ ext_pc = "returned"
    /\ second_run = Running
    /\ \E writable \in BOOLEAN, k \in 0..Len(Passes) :
          second_run' =
              IF writable
              THEN extract_frames(source, same_behaviour(frame_log, k))
              ELSE raised(PermissionDeniedError("open"))
    /\ UNCHANGED <<source, output_dir, ext_pc, frame_idx, saved_paths,
                   frame_log, ext_result, batch_vars, frame_vars, app_vars>>

NextTwice ==
    \/ NextExtract
    \/ ExtractAgain

SpecTwice ==
    InitExtract /\ [][NextTwice]_vars

---------------------------------------------------------------------------
(* process_frames of app.py, and the call it makes to perform_ocr_on_frames. *)

\* app.py line 249: min(len(frames_paths), 30)
MAX_OCR_FRAMES ==
    30

\* longest session['frames_paths'] handed to process_frames
MaxPaths ==
    31

\* app.py line 264: the text "(Frame skipped to improve performance)"
FRAME_SKIPPED ==
    <<"(", "F", "r", "a", "m", "e", " ", "s", "k", "i", "p", "p", "e", "d",
      " ", "t", "o", " ", "i", "m", "p", "r", "o", "v", "e", " ", "p", "e",
      "r", "f", "o", "r", "m", "a", "n", "c", "e", ")">>

\* How the engine treats the frames of one perform_ocr_on_frames call: it
\* reads `text` on every frame, and the iteration of frame fault_at (1-based,
\* 0 for none) meets `fault`.
Engines ==
    {[text |-> t, fault |-> "none", fault_at |-> 0] :
        t \in {OutNothing, OutAB, NO_TEXT, TESSERACT_UNAVAILABLE}}
    \cup
    {[text |-> OutNothing, fault |-> f, fault_at |-> k] :
        f \in {"call", "handler"}, k \in {1, 2}}

\* ocr_engine.py lines 206-236: the loop from iteration i (0-based) on
RECURSIVE run_loop(_, _, _, _)
run_loop(loc, paths, i, engine) ==
    IF i >= Len(paths) \/ loc.escaped THEN loc
    ELSE run_loop(loop_body(loc, i, paths[i + 1],
                            [text |-> engine.text, calls |-> <<>>,
                             raised |-> FALSE],
                            IF i + 1 = engine.fault_at THEN engine.fault
                            ELSE "none"),
                  paths, i + 1, engine)

\* ocr_engine.py lines 191-279 as one call: the list it returns, and
\* whether it came from the handler of line 269
perform_ocr_on_frames(paths, engine) ==
    IF paths = <<>> THEN [fatal |-> FALSE, list |-> <<>>]
    ELSE LET loc == run_loop(fresh_locals, paths, 0, engine)
         IN  IF loc.escaped
             THEN [fatal |-> TRUE, list |-> fatal_result(paths)]
             ELSE [fatal |-> FALSE, list |-> combined_analysis(loc, paths)]

\* frames_to_process with a seeded fault: the limit is computed and not
\* applied
frames_to_process_all(paths) ==
    paths

\* app.py lines 249-254: the frames handed to the engine
frames_to_process(paths) ==
    LET max_frames == IF Len(paths) < MAX_OCR_FRAMES THEN Len(paths)
                      ELSE MAX_OCR_FRAMES
    IN  IF Len(paths) > max_frames THEN SubSeq(paths, 1, max_frames)
        ELSE paths

\* app.py lines 261-267: the placeholder records for idx in
\* range(max_frames, len(frames_paths))
skipped(paths) ==
    [k \in 1..(Len(paths) - Len(frames_to_process(paths))) |->
        record(Len(frames_to_process(paths)) + k,
               paths[Len(frames_to_process(paths)) + k], FRAME_SKIPPED)]

\* What stands between the request and the OCR call:
\*   "tesseract"   check_tesseract() is False (app.py lines 203-211)
\*   "diagnostics" DEBUG_MODE is on and the engine is not installed
\*                 (app.py lines 230-244)
\*   "pass"        neither
Gates ==
    {"pass", "tesseract", "diagnostics"}

\* app.py lines 169-365: the frames sent to the engine, what the engine
\* call gave back, and the list the response carries
process_frames(paths, gate, engine) ==
    IF paths = <<>> \/ gate # "pass"
    THEN [called |-> FALSE, sent |-> <<>>,
          ocr |-> [fatal |-> FALSE, list |-> NotReturned],
          results |-> <<>>]
    ELSE LET ocr == perform_ocr_on_frames(frames_to_process(paths), engine)
         IN  [called |-> TRUE,
              sent |-> frames_to_process(paths),
              ocr |-> ocr,
              results |-> ocr.list \o skipped(paths)]

\* the Flask session without the key frames_paths: session_id is the
\* number of the upload that made it (0: the key is absent), file_path says
\* whether the keys file_path and original_filename are there, ocr_results
\* is the stored list (<<>>: the key is absent, an empty list is never
\* stored), results_of the upload whose frames the stored list was read from
EmptySession ==
    [session_id |-> 0, file_path |-> FALSE, ocr_results |-> <<>>,
     results_of |-> 0]

\* no request was answered yet
NoResponse ==
    [route |-> "none", status |-> 0, success |-> FALSE, message |-> "",
     found |-> 0, called |-> FALSE, results |-> <<>>, of |-> 0]

\* a JSON answer: the route, the HTTP status, the fields success and
\* message (or error). `found` is the count behind the message, `called`
\* whether the request ran the OCR, `results` the list the answer carries (for
\* /export the list written to the file) and `of` the upload it was read from.
json(route, status, success, message) ==
    [route |-> route, status |-> status, success |-> success,
     message |-> message, found |-> 0, called |-> FALSE, results |-> <<>>,
     of |-> 0]

\* app.py line 174
NO_SESSION ==
    "No active image processing session"

\* app.py line 209
NO_TESSERACT ==
    "OCR engine (Tesseract) is not properly installed or configured. Please contact support."

\* app.py line 241
NOT_INSTALLED ==
    "The OCR engine is not properly installed on the server."

\* app.py line 315
NO_RESULTS ==
    "OCR processing did not return any results. Please try a different image."

\* app.py line 337
found_text(k) ==
    "OCR processing complete. Found text in " \o ToString(k) \o " frames."

\* app.py line 345
all_errors(k) ==
    "OCR processing complete, but encountered errors in all " \o ToString(k)
        \o " frames. No text was found."

\* app.py line 352
NO_TEXT_FOUND ==
    "OCR processing complete, but no text was found in any frame."

\* app.py lines 321-323
success_count_of(results) ==
    LET is_error(r) == startswith(r.text, ErrorPrefix)
        is_empty(r) == r.text = <<>> \/ r.text = NO_TEXT
    IN  Len(results) - Len(SelectSeq(results, is_error))
            - Len(SelectSeq(results, is_empty))

\* app.py lines 310-354: the answer for the list the OCR block left
report(results) ==
    LET is_error(r) == startswith(r.text, ErrorPrefix)
        error_count_ == Len(SelectSeq(results, is_error))
        success_count_ == success_count_of(results)
    IN  IF Len(results) = 0
        THEN json("process", 200, FALSE, NO_RESULTS)
        ELSE [json("process", 200, TRUE,
                   IF success_count_ > 0 THEN found_text(success_count_)
                   ELSE IF error_count_ > 0 THEN all_errors(error_count_)
                   ELSE NO_TEXT_FOUND)
                EXCEPT !.found = success_count_, !.results = results]

\* app.py lines 169-354: the answer of /process; out is what process_frames
\* did with the paths. The session lacks frames_paths when paths is <<>>:
\* upload_file stores no empty list (lines 137-143).
process_response(session_id, paths, gate, out) ==
    IF session_id = 0 \/ paths = <<>>
    THEN json("process", 200, FALSE, NO_SESSION)
    ELSE IF gate = "tesseract"
    THEN json("process", 200, FALSE, NO_TESSERACT)
    ELSE IF gate = "diagnostics"
    THEN json("process", 200, FALSE, NOT_INSTALLED)
    ELSE [report(out.results) EXCEPT !.called = out.called]

\* app.py line 330: the list is stored when the answer carries one
store_results(sess, answer) ==
    IF answer.route = "process" /\ answer.results # <<>>
    THEN [sess EXCEPT !.ocr_results = answer.results,
                      !.results_of = sess.session_id]
    ELSE sess

\* the /process request on the stored session
ProcessFrames ==
    /\ app_pc = "ready"
    /\ \E gate \in Gates, engine \in Engines :
          LET out == process_frames(session_paths, gate, engine)
          IN  /\ sent' = out.sent
              /\ returned' = out.ocr.list
              /\ escaped' = out.ocr.fatal
              /\ app_results' = out.results
              /\ response' = process_response(session.session_id,
                                              session_paths, gate, out)
              /\ session' = store_results(session, response')
              /\ app_pc' = IF out.called THEN "answered" ELSE "refused"
    /\ UNCHANGED <<history, struck, session_paths, frames_paths, files,
                   deleted, pc, idx, ocr_results, error_count, success_count, empty_count,
                   analysis_failed, ref, frame_vars, extract_vars>>

\* upload_file, app.py lines 134-143: the extracted paths go into the session
StoreSession ==
    /\ ext_pc = "returned"
    /\ app_pc = "idle"
    /\ session_paths' = ext_result.paths
    /\ app_pc' = "ready"
    /\ session' = [session EXCEPT !.session_id = 1, !.file_path = TRUE]
    /\ history' = [history EXCEPT !.uploads = 1]
    /\ UNCHANGED <<sent, app_results, response, batch_vars, frame_vars,
                   extract_vars>>

InitApp ==
    /\ IdleBatch
    /\ IdleFrame
    /\ IdleExtract
    /\ app_pc = "ready"
    /\ session_paths \in {[k \in 1..n |-> frame_filename(k - 1)] :
                            n \in 0..MaxPaths}
    /\ sent = <<>>
    /\ app_results = <<>>
    /\ session = [EmptySession EXCEPT !.session_id = 1, !.file_path = TRUE]
    /\ response = NoResponse
    /\ history = [uploads |-> 1, cleaned |-> FALSE, removal |-> "none"]

NextApp ==
    ProcessFrames

SpecApp ==
    InitApp /\ [][NextApp]_vars

\* upload, extraction, then the /process request
NextPipeline ==
    \/ NextExtract
    \/ StoreSession
    \/ ProcessFrames

SpecPipeline ==
    InitExtract /\ [][NextPipeline]_vars

---------------------------------------------------------------------------
(* The routes /upload, /process, /export and /cleanup on one session. *)

\* most uploads of one behaviour that get as far as line 98
MaxUploads ==
    2

\* most frames of an uploaded image
MaxSessionFrames ==
    2

\* app.py lines 68, 74, 78 and 87-89 (for a body of 17 MB)
NO_FILE_PART ==
    "No file part in the request"

NO_FILE_SELECTED ==
    "No file selected"

NOT_ALLOWED ==
    "Only GIF, JPEG, JPG, PNG, and AVIF files are allowed"

TOO_LARGE ==
    "File too large (17.00MB). Maximum size is 16MB"

\* app.py line 113
NOT_SAVED ==
    "Failed to save uploaded file"

\* app.py line 125, for a file PIL reads as BMP
NOT_SUPPORTED ==
    "The file format BMP is not supported. Please use GIF, JPEG, PNG, or AVIF."

\* app.py line 131
NOT_AN_IMAGE ==
    "The file is not a valid image. Please use GIF, JPEG, PNG, or AVIF formats."

\* app.py line 157
EXTRACT_FAILED ==
    "Error extracting frames from the image. The file may be corrupted."

\* app.py line 163
UNEXPECTED ==
    "An unexpected error occurred while uploading the file. Please try again."

\* app.py line 150
processed_image(n) ==
    "Successfully processed image with " \o ToString(n) \o " frames"

\* app.py lines 369 and 373
NO_ACTIVE_SESSION ==
    "No active session found. Please process an image first."

NOTHING_TO_EXPORT ==
    "No OCR results to export. Please process an image first."

\* app.py line 418
NO_EXPORT_FILE ==
    "Failed to create export file"

\* app.py line 443, for an exception whose text is "disk full"
EXPORT_FAILED ==
    "Error exporting results: disk full"

\* app.py lines 66-90: the answers given before the session is looked at
rejection(why) ==
    CASE why = "no_file" -> json("upload", 400, FALSE, NO_FILE_PART)
      [] why = "no_name" -> json("upload", 400, FALSE, NO_FILE_SELECTED)
      [] why = "type" -> json("upload", 400, FALSE, NOT_ALLOWED)
      [] why = "size" -> json("upload", 413, FALSE, TOO_LARGE)

\* cleanup with a seeded fault: the exception of a failed removal is not
\* caught, and the session is left as it was
cleanup_guarded_by_removal(st, removal) ==
    IF st.session.session_id # 0 /\ removal = "raises" THEN st
    ELSE [session |-> EmptySession, paths |-> <<>>]

\* app.py lines 448-470 on the session: removal is "ok" when the files and
\* the directory went, "raises" when one of lines 455-464 raised; the handler
\* of line 465 logs it, and line 469 clears the session in both cases
cleanup(st, removal) ==
    [session |-> EmptySession, paths |-> <<>>]

\* clean_up_previous with a seeded fault: the old session is kept
keep_previous(st, removal) ==
    st

\* app.py lines 93-94
clean_up_previous(st, removal) ==
    IF st.session.session_id # 0 THEN cleanup(st, removal) ELSE st

\* the frames of an uploaded image: each is saved, or its file is missing
\* after the save
SessionFates ==
    {[pre |-> "ok", fail_at |-> 0, save |-> s] : s \in {"ok", "missing"}}

\* What one /upload request meets:
\*   reject   the early answer of lines 66-90, "none" when the file passes
\*   removal  how the removal of the old files goes in cleanup
\*   uuid     the new session_id of line 97
\*   fails    "makedirs", "save": line 102 or 109 raises; "not_saved": the
\*            file is not there at line 111; "format", "not_image": the
\*            validation of lines 119-131; "none": the extraction is reached
\*   writable whether the frames directory can be written to
\*   fates    what each frame of the image meets in the extraction
UploadRequests(uuid) ==
    {[reject |-> r, removal |-> "ok", uuid |-> uuid, fails |-> "none",
      writable |-> TRUE, fates |-> <<>>] :
        r \in {"no_file", "no_name", "type", "size"}}
    \cup
    {[reject |-> "none", removal |-> rm, uuid |-> uuid, fails |-> f,
      writable |-> TRUE, fates |-> <<>>] :
        rm \in {"ok", "raises"},
        f \in {"makedirs", "save", "not_saved", "format", "not_image"}}
    \cup
    {[reject |-> "none", removal |-> rm, uuid |-> uuid, fails |-> "none",
      writable |-> w, fates |-> fs] :
        rm \in {"ok", "raises"}, w \in BOOLEAN,
        fs \in UNION {[1..n -> SessionFates] : n \in 1..MaxSessionFrames}}

\* the image of a request that passed the validation of lines 119-131
uploaded(req) ==
    [exists |-> TRUE, size |-> "positive", opens |-> TRUE,
     n_frames |-> Len(req.fates), mode |-> "RGB"]

\* app.py lines 65-165 on the session
upload_file(st, req) ==
    IF req.reject # "none"
    THEN [session |-> st.session, paths |-> st.paths,
          response |-> rejection(req.reject)]
    ELSE LET cleaned == clean_up_previous(st, req.removal)
             created == [cleaned.session EXCEPT !.session_id = req.uuid]
             saved == [created EXCEPT !.file_path = TRUE]
             frames == IF req.writable
                       THEN extract_frames(uploaded(req), req.fates)
                       ELSE raised(PermissionDeniedError("open"))
             leave(sess, status, message) ==
                 [session |-> sess, paths |-> cleaned.paths,
                  response |-> json("upload", status, FALSE, message)]
         IN  CASE req.fails \in {"makedirs", "save"} ->
                      leave(created, 500, UNEXPECTED)
               [] req.fails = "not_saved" -> leave(created, 500, NOT_SAVED)
               [] req.fails = "format" -> leave(saved, 400, NOT_SUPPORTED)
               [] req.fails = "not_image" -> leave(saved, 400, NOT_AN_IMAGE)
               [] OTHER ->
                      IF frames.kind = "raised"
                      THEN leave(saved, 500, EXTRACT_FAILED)
                      ELSE [session |-> saved, paths |-> frames.paths,
                            response |->
                                json("upload", 200, TRUE,
                                     processed_image(Len(frames.paths)))]

\* app.py lines 364-446: how is "sent" when the file is written and sent,
\* "missing" when it is not there at line 416, "raises" when the export raised
export_results(sess, how) ==
    IF sess.session_id = 0
    THEN json("export", 400, FALSE, NO_ACTIVE_SESSION)
    ELSE IF sess.ocr_results = <<>>
    THEN json("export", 400, FALSE, NOTHING_TO_EXPORT)
    ELSE CASE how = "sent" ->
                  [json("export", 200, TRUE, "")
                     EXCEPT !.results = sess.ocr_results,
                            !.of = sess.results_of]
           [] how = "missing" -> json("export", 500, FALSE, NO_EXPORT_FILE)
           [] how = "raises" -> json("export", 500, FALSE, EXPORT_FAILED)

\* POST /upload
Upload ==
    \E req \in UploadRequests(history.uploads + 1) :
       LET out == upload_file([session |-> session, paths |-> session_paths],
                              req)
           made == req.reject = "none"
       IN  /\ made => history.uploads < MaxUploads
           /\ session' = out.session
           /\ session_paths' = out.paths
           /\ response' = out.response
           /\ history' =
                 IF ~made THEN history
                 ELSE [uploads |-> history.uploads + 1,
                       cleaned |-> /\ ~out.response.success
                                   /\ (history.cleaned
                                         \/ session.session_id # 0),
                       removal |-> IF session.session_id # 0
                                   THEN req.removal ELSE history.removal]
           /\ UNCHANGED <<app_pc, sent, app_results, batch_vars, frame_vars,
                          extract_vars>>

\* POST /process
Process ==
    \E gate \in Gates, engine \in Engines :
       LET out == process_frames(IF session.session_id = 0 THEN <<>>
                                 ELSE session_paths, gate, engine)
       IN  /\ sent' = out.sent
           /\ returned' = out.ocr.list
           /\ escaped' = out.ocr.fatal
           /\ app_results' = out.results
           /\ response' = process_response(session.session_id,
                                           session_paths, gate, out)
           /\ session' = store_results(session, response')
           /\ UNCHANGED <<app_pc, history, struck, session_paths,
                          frames_paths, files, deleted, pc, idx, ocr_results,
                          error_count, success_count, empty_count,
                          analysis_failed, ref, frame_vars, extract_vars>>

\* GET or POST /export
Export ==
    \E how \in {"sent", "missing", "raises"} :
       /\ response' = export_results(session, how)
       /\ UNCHANGED <<app_pc, session, session_paths, history, sent,
                      app_results, batch_vars, frame_vars, extract_vars>>

\* POST /cleanup
Cleanup ==
    \E removal \in {"ok", "raises"} :
       LET out == cleanup([session |-> session, paths |-> session_paths],
                          removal)
       IN  /\ session' = out.session
           /\ session_paths' = out.paths
           /\ response' = json("cleanup", 200, TRUE, "")
           /\ history' = [history EXCEPT
                             !.cleaned = TRUE,
                             !.removal = IF session.session_id # 0
                                         THEN removal ELSE "none"]
           /\ UNCHANGED <<app_pc, sent, app_results, batch_vars, frame_vars,
                          extract_vars>>

\* a browser without a session cookie
InitSession ==
    /\ IdleBatch
    /\ IdleFrame
    /\ IdleExtract
    /\ IdleApp

NextSession ==
    \/ Upload
    \/ Process
    \/ Export
    \/ Cleanup

SpecSession ==
    InitSession /\ [][NextSession]_vars

---------------------------------------------------------------------------
(* Properties of perform_ocr_on_frames (specification Spec). *)

\* the call came back through line 267 (or line 195), not through the
\* handler of line 269
ReturnedNormally ==
    pc = "done" /\ ~escaped

NPaths ==
    Len(frames_paths)

\* the text begins with the six characters "Error:"
BeginsWithError(text) ==
    /\ Len(text) >= 6
    /\ text[1] = "E" /\ text[2] = "r" /\ text[3] = "r"
    /\ text[4] = "o" /\ text[5] = "r" /\ text[6] = ":"

Reserved(text) ==
    BeginsWithError(text) \/ text = NO_TEXT

\* C1: when the batch returns from its loop, whatever each frame did
\* (text, no text, precondition error, invalid image, raised exception), the
\* first len(paths) elements of the result are the real records, the i-th
\* with frame_number i and frame_path paths[i], and nothing after them is a
\* real record: one record per path, in order, none dropped or duplicated.
C1_OneRecordPerPath ==
    (ReturnedNormally /\ frames_paths # <<>>) =>
        /\ Len(returned) >= NPaths
        /\ \A i \in 1..NPaths :
              /\ returned[i].frame_number = i
              /\ returned[i].frame_path = frames_paths[i]
        /\ \A k \in (NPaths + 1)..Len(returned) :
              returned[k].frame_path = COMBINED_PATH

\* three frames: one raised, one was recognised, one had no text
C1_Witness ==
    /\ ReturnedNormally
    /\ NPaths = 3
    /\ returned[1].text = BATCH_FAILED
    /\ returned[2].text = strip(OutAbc)
    /\ returned[3].text = NO_TEXT

C3_AsStated ==
    (ReturnedNormally /\ deleted # {}) =>
        /\ Len(returned) >= NPaths
        /\ \A i \in deleted :
              /\ returned[i].frame_number = i
              /\ BeginsWithError(returned[i].text)
        /\ \A k \in (1..Len(ref.returned)) \ deleted :
              /\ k <= Len(returned)
              /\ returned[k].frame_number = ref.returned[k].frame_number
              /\ returned[k].text = ref.returned[k].text

\* C3, amended: a frame file removed before the call still has its record,
\* with an "Error:" text, at its position; every other real record has the
\* frame_number and the text it has in the run where nothing was removed
\* (the synthetic record after them may change or go).
C3_DeletedFrameContained ==
    (ReturnedNormally /\ deleted # {}) =>
        /\ Len(returned) >= NPaths
        /\ Len(ref.returned) >= NPaths
        /\ \A i \in deleted :
              /\ returned[i].frame_number = i
              /\ BeginsWithError(returned[i].text)
        /\ \A j \in (1..NPaths) \ deleted :
              /\ returned[j].frame_number = j
              /\ returned[j].frame_number = ref.returned[j].frame_number
              /\ returned[j].text = ref.returned[j].text

\* the middle frame of three was removed; it would have read "C123 extra",
\* its neighbours read "AB" and "nothing"
C3_Witness ==
    /\ ReturnedNormally
    /\ NPaths = 3
    /\ deleted = {2}
    /\ ref.returned[2].text = OutC123
    /\ returned[2].text = FRAME_NOT_FOUND
    /\ returned[1].text = OutAB
    /\ returned[3].text = OutNothing

\* the i-th text of the real records that are neither "Error:" texts nor
\* NO_TEXT, joined left to right with single spaces
RECURSIVE SpacedConcat(_, _)
SpacedConcat(texts, k) ==
    IF k = 0 THEN <<>>
    ELSE IF k = 1 THEN texts[1]
    ELSE SpacedConcat(texts, k - 1) \o <<" ">> \o texts[k]

RealRecords ==
    SubSeq(returned, 1, NPaths)

UnreservedTexts ==
    LET unreserved(r) == ~Reserved(r.text)
        kept == SelectSeq(RealRecords, unreserved)
    IN  [k \in 1..Len(kept) |-> kept[k].text]

JoinedText ==
    SpacedConcat(UnreservedTexts, Len(UnreservedTexts))

\* s[a..b] is a maximal run of letters and digits
IsRun(s, a, b) ==
    /\ a <= b
    /\ \A k \in a..b : s[k] \in Alnum
    /\ (a = 1 \/ s[a - 1] \notin Alnum)
    /\ (b = Len(s) \/ s[b + 1] \notin Alnum)

Runs(s) ==
    LET starts == {a \in 1..Len(s) :
                      s[a] \in Alnum /\ (a = 1 \/ s[a - 1] \notin Alnum)}
        ends == {b \in 1..Len(s) :
                    s[b] \in Alnum /\ (b = Len(s) \/ s[b + 1] \notin Alnum)}
    IN  {ab \in starts \X ends : IsRun(s, ab[1], ab[2])}

RunLen(ab) ==
    ab[2] - ab[1] + 1

\* among runs: the longest one, the leftmost among equally long ones
IsChosenAmong(runs, ab) ==
    /\ ab \in runs
    /\ \A cd \in runs :
          \/ RunLen(cd) < RunLen(ab)
          \/ (RunLen(cd) = RunLen(ab) /\ cd[1] >= ab[1])

\* the longest run of s, the leftmost among equally long ones
IsChosenRun(s, ab) ==
    IsChosenAmong(Runs(s), ab)

HasSynthetic ==
    \E k \in 1..Len(returned) : returned[k].frame_path = COMBINED_PATH

\* C7: when some real record is a success and the analysis itself did not
\* raise, a synthetic record is appended iff the space-joined texts of the
\* records that are neither "Error:" texts nor NO_TEXT hold a run of >= 4
\* letters/digits; it is then the single last element, numbered
\* len(paths)+1, with path "combined_analysis" and the text quoting the
\* longest run, the first among equally long ones.
C7_CombinedAnalysis ==
    (/\ ReturnedNormally
     /\ ~analysis_failed
     /\ frames_paths # <<>>
     /\ Len(returned) >= NPaths
     /\ \E i \in 1..NPaths : ~Reserved(returned[i].text)) =>
        LET s == JoinedText
            runs == Runs(s)
            long == {ab \in runs : RunLen(ab) >= MinWord}
        IN  /\ HasSynthetic <=> long # {}
            /\ long = {} => Len(returned) = NPaths
            /\ long # {} =>
                  /\ Len(returned) = NPaths + 1
                  /\ \A k \in 1..NPaths :
                        returned[k].frame_path # COMBINED_PATH
                  /\ returned[NPaths + 1].frame_number = NPaths + 1
                  /\ returned[NPaths + 1].frame_path = COMBINED_PATH
                  /\ \E ab \in long :
                        /\ IsChosenAmong(runs, ab)
                        /\ returned[NPaths + 1].text =
                              COMBINED_HEAD \o SubSeq(s, ab[1], ab[2])
                                  \o COMBINED_TAIL

\* "abc" then "WXYZ 2024": two runs of length 4, the first one is quoted
C7_Witness ==
    /\ ReturnedNormally
    /\ NPaths = 2
    /\ returned[1].text = strip(OutAbc)
    /\ returned[2].text = strip(OutTie)
    /\ Len(returned) = 3
    /\ returned[3].text =
          COMBINED_HEAD \o <<"W", "X", "Y", "Z">> \o COMBINED_TAIL

\* the batch of the example: texts "AB", "C123 extra", "nothing"
ExampleBatch ==
    /\ ReturnedNormally
    /\ ~analysis_failed
    /\ NPaths = 3
    /\ Len(returned) >= 3
    /\ returned[1].text = OutAB
    /\ returned[2].text = OutC123
    /\ returned[3].text = OutNothing

\* C8 as stated: for the texts "AB", "C123 extra", "nothing" the synthetic
\* record is number 4 and quotes the run C123.
C8_AsStated ==
    ExampleBatch =>
        /\ Len(returned) = 4
        /\ returned[4].frame_number = 4
        /\ returned[4].text =
              COMBINED_HEAD \o <<"C", "1", "2", "3">> \o COMBINED_TAIL

\* C8, amended: for the texts "AB", "C123 extra", "nothing" the scan runs
\* over "AB C123 extra nothing", whose runs are C123, extra and nothing; the
\* synthetic record is number 4 = len(paths)+1 and quotes the longest,
\* "nothing". With "No text detected" as the third text the scan runs over
\* "AB C123 extra" and the record quotes "extra".
C8_LongestRunOfExample ==
    /\ ExampleBatch =>
          /\ Len(returned) = 4
          /\ returned[4].frame_number = NPaths + 1
          /\ returned[4].frame_path = COMBINED_PATH
          /\ returned[4].text = COMBINED_HEAD \o OutNothing \o COMBINED_TAIL
    /\ (/\ ReturnedNormally
        /\ ~analysis_failed
        /\ NPaths = 3
        /\ Len(returned) >= 3
        /\ returned[1].text = OutAB
        /\ returned[2].text = OutC123
        /\ returned[3].text = NO_TEXT) =>
          /\ Len(returned) = 4
          /\ returned[4].frame_number = NPaths + 1
          /\ returned[4].text =
                COMBINED_HEAD \o <<"e", "x", "t", "r", "a">> \o COMBINED_TAIL

C8_Witness ==
    /\ ExampleBatch
    /\ Len(returned) = 4
    /\ returned[4].frame_path = COMBINED_PATH

\* C9: when every real record's text is NO_TEXT or an "Error:" text, no
\* synthetic record is appended: the result has len(paths) elements and
\* none has the path "combined_analysis".
C9_NoSyntheticWithoutSuccess ==
    (/\ ReturnedNormally
     /\ frames_paths # <<>>
     /\ Len(returned) >= NPaths
     /\ \A i \in 1..NPaths : Reserved(returned[i].text)) =>
        /\ Len(returned) = NPaths
        /\ ~HasSynthetic

\* no text, a missing engine, and a frame whose recognised text itself
\* reads "Error: 4040"
C9_Witness ==
    /\ ReturnedNormally
    /\ NPaths = 3
    /\ Len(returned) = 3
    /\ returned[1].text = NO_TEXT
    /\ returned[2].text = TESSERACT_UNAVAILABLE
    /\ returned[3].text = OutErrLike

\* C10: in every returned list frame_number increases strictly, at most one
\* record has the path "combined_analysis", and it is the last element.
C10_NumbersIncrease ==
    pc = "done" =>
        /\ \A k \in 1..(Len(returned) - 1) :
              returned[k].frame_number < returned[k + 1].frame_number
        /\ \A k \in 1..Len(returned) :
              returned[k].frame_path = COMBINED_PATH => k = Len(returned)

\* three real records followed by the synthetic one
C10_Witness ==
    /\ pc = "done"
    /\ NPaths = 3
    /\ Len(returned) = 4
    /\ returned[4].frame_path = COMBINED_PATH
    /\ returned[3].frame_path = frames_paths[3]

---------------------------------------------------------------------------
(* Properties of perform_ocr_on_frame (specification SpecFrame). *)

FrameReturned ==
    frame_pc = "returned"

\* the three preconditions pass and Image.open succeeds
Attempting ==
    /\ frame_env.probe = "ok"
    /\ frame_env.exists
    /\ frame_env.getsize = "positive"
    /\ frame_env.open

Invoked(call) ==
    \E k \in 1..Len(frame_ret.calls) : frame_ret.calls[k] = call

\* C4: the engine probe comes first, then the existence of the file, then
\* its size; the first check that fails gives its "Error:" text, nothing is
\* raised, and neither Image.open nor any recognition attempt is invoked;
\* an attempt is only ever invoked after the three checks.
C4_PreconditionsFirst ==
    FrameReturned =>
        /\ ~frame_ret.raised
        /\ frame_env.probe # "ok" =>
              /\ frame_ret.text = TESSERACT_UNAVAILABLE
              /\ frame_ret.calls = <<"check_tesseract">>
        /\ (frame_env.probe = "ok" /\ ~frame_env.exists) =>
              /\ frame_ret.text = FRAME_NOT_FOUND
              /\ frame_ret.calls = <<"check_tesseract", "exists">>
        /\ (frame_env.probe = "ok" /\ frame_env.exists
              /\ frame_env.getsize = "zero") =>
              /\ frame_ret.text = FRAME_EMPTY
              /\ frame_ret.calls = <<"check_tesseract", "exists", "getsize">>
        /\ (frame_env.probe # "ok" \/ ~frame_env.exists
              \/ frame_env.getsize = "zero") =>
              /\ BeginsWithError(frame_ret.text)
              /\ ~Invoked("open")
              /\ ~Invoked("image_to_string")
        /\ Invoked("image_to_string") =>
              SubSeq(frame_ret.calls, 1, 3) =
                  <<"check_tesseract", "exists", "getsize">>

\* the engine is missing and the file is missing too: the engine is reported
C4_Witness ==
    /\ FrameReturned
    /\ frame_env.probe = "missing"
    /\ ~frame_env.exists
    /\ frame_env.ocr[1] = OutAB
    /\ frame_ret.text = TESSERACT_UNAVAILABLE

Trimmed(k) ==
    strip(frame_env.ocr[k])

AllAttemptsReturn ==
    \A k \in 1..3 : frame_env.ocr[k] # Raises

\* C5: when the three attempts return (a, b, c) and one of them is not
\* blank, the result is the stripped output of greatest length, and of the
\* lowest attempt index among those of that length.
C5_LongestEarliest ==
    (/\ FrameReturned
     /\ Attempting
     /\ AllAttemptsReturn
     /\ \E k \in 1..3 : Trimmed(k) # <<>>) =>
        \E k \in 1..3 :
            /\ Trimmed(k) # <<>>
            /\ frame_ret.text = Trimmed(k)
            /\ \A j \in 1..3 : Len(Trimmed(j)) <= Len(Trimmed(k))
            /\ \A j \in 1..(k - 1) : Len(Trimmed(j)) < Len(Trimmed(k))

\* ("", " CD\n", "AB"): attempts 2 and 3 tie at two characters, 2 wins
C5_Witness ==
    /\ FrameReturned
    /\ Attempting
    /\ frame_env.ocr = <<OutEmpty, OutCD, OutAB>>
    /\ frame_ret.text = <<"C", "D">>

\* C6: when the preconditions pass, the frame opens and the three attempts
\* all return blank text, the result is exactly NO_TEXT.
C6_NoTextDetected ==
    (/\ FrameReturned
     /\ Attempting
     /\ AllAttemptsReturn
     /\ \A k \in 1..3 : Trimmed(k) = <<>>) =>
        frame_ret.text = NO_TEXT

\* (" \n", "", " \n")
C6_Witness ==
    /\ FrameReturned
    /\ Attempting
    /\ frame_env.ocr = <<OutBlank, OutEmpty, OutBlank>>
    /\ frame_ret.text = NO_TEXT

---------------------------------------------------------------------------
(* The empty argument (specification Spec). *)

\* C11: perform_ocr_on_frames called with an empty sequence returns the
\* empty list: no record of any kind, no loop iteration (each iteration is
\* one perform_ocr_on_frame call, which is where the engine is probed and
\* recognition runs), and no tally moved.
C11_EmptyInput ==
    (frames_paths = <<>> /\ pc = "done") =>
        /\ returned = <<>>
        /\ idx = 0
        /\ ocr_results = <<>>
        /\ error_count = 0 /\ success_count = 0 /\ empty_count = 0
        /\ ~escaped

\* the call on [] has returned
C11_Witness ==
    /\ frames_paths = <<>>
    /\ pc = "done"
    /\ returned = <<>>

---------------------------------------------------------------------------
(* Properties of extract_frames_from_image (specification SpecExtract). *)

\* the call has ended, one way or the other
ExtractEnded ==
    ext_pc \in {"returned", "raised"}

\* the frame loop ran over every declared frame
LoopDone ==
    /\ ExtractEnded
    /\ source.opens
    /\ output_dir.failed = "none"
    /\ Len(frame_log) = source.n_frames

\* the file of source frame i is in output_dir and holds bytes
OnDisk(i) ==
    \E f \in output_dir.files :
        f.name = frame_filename(i) /\ f.size = "positive"

\* source frame i went through every step: nothing raised before the save,
\* and the save wrote the file
Survived(i) ==
    /\ i + 1 <= Len(frame_log)
    /\ frame_log[i + 1].lost = "no"

SourceIndices ==
    0..(source.n_frames - 1)

\* the source index a returned path belongs to
IndexOf(path) ==
    CHOOSE i \in 0..(MaxSourceFrames + 1) : frame_filename(i) = path

\* C12: the returned sequence lists exactly the source frames that were
\* saved and verified, in increasing source order, with no placeholder for
\* a dropped frame; a frame that failed at any step did not stop the loop:
\* every declared frame was processed.
C12_SavedSubsequence ==
    ext_pc = "returned" =>
        LET paths == ext_result.paths
        IN  /\ Len(frame_log) = source.n_frames
            /\ \A k \in 1..Len(paths) :
                  \E i \in SourceIndices :
                      paths[k] = frame_filename(i) /\ OnDisk(i) /\ Survived(i)
            /\ \A i \in SourceIndices :
                  (OnDisk(i) /\ Survived(i)) <=>
                      \E k \in 1..Len(paths) : paths[k] = frame_filename(i)
            /\ \A k, l \in 1..Len(paths) :
                  k < l => IndexOf(paths[k]) < IndexOf(paths[l])

\* three frames, the middle one dropped at its save
C12_Witness ==
    /\ ext_pc = "returned"
    /\ source.n_frames = 3
    /\ frame_log[2].lost = "raises"
    /\ ext_result.paths = <<frame_filename(0), frame_filename(2)>>

\* the source frames that were saved and verified
Kept ==
    {i \in SourceIndices : OnDisk(i) /\ Survived(i)}

\* C13: a source that opens with F >= 1 frames, of which at least one was
\* saved and verified, makes the call return n paths with 1 <= n <= F, n
\* being the number of frames saved and verified.
C13_LengthBounds ==
    (LoopDone /\ Kept # {}) =>
        /\ ext_pc = "returned"
        /\ Len(ext_result.paths) = Cardinality(Kept)
        /\ 1 <= Len(ext_result.paths)
        /\ Len(ext_result.paths) <= source.n_frames

\* three declared frames, one kept
C13_Witness ==
    /\ LoopDone
    /\ source.n_frames = 3
    /\ Kept = {1}
    /\ Len(ext_result.paths) = 1

\* C14: when the source opens and no frame is saved and verified, the call
\* raises the error of line 135, which no other failure of the extractor
\* equals: NotFound and PermissionDenied differ from it in type, EmptySource
\* and the unreadable image in message; and no call returns an empty
\* sequence.
C14_NoFramesExtracted ==
    /\ (LoopDone /\ Kept = {}) =>
          /\ ext_pc = "raised"
          /\ ext_result.error = InvalidImageError(NoFramesMessage)
          /\ ext_result.error.type # NotFoundError.type
          /\ ext_result.error.type # PermissionDeniedError("open").type
          /\ ext_result.error.message # EmptySourceError.message
    /\ (ExtractEnded /\ ~LoopDone) =>
          ext_result.error # InvalidImageError(NoFramesMessage)
    /\ ext_pc = "returned" => ext_result.paths # <<>>

\* two frames, one lost before the save and one at the verification
C14_Witness ==
    /\ LoopDone
    /\ source.n_frames = 2
    /\ frame_log[1].lost = "copy"
    /\ frame_log[2].lost = "zero"
    /\ ext_pc = "raised"

\* the source passed the two checks of lines 22-30
SourceValid ==
    source.exists /\ source.size = "positive"

\* nothing was done to output_dir and no frame was touched
DirUntouched ==
    /\ output_dir.files = {}
    /\ output_dir.failed = "none"
    /\ frame_log = <<>>
    /\ saved_paths = <<>>

\* C15 as stated: a missing source ends in NotFound and a zero-byte source
\* in EmptySource, both with output_dir neither created nor written to and
\* no frame opened or saved; with a valid source, an output_dir that cannot
\* be written to ends in PermissionDenied, before any frame.
C15_AsStated ==
    /\ (ext_pc = "start" \/ ~SourceValid) => DirUntouched
    /\ ExtractEnded =>
          /\ ~source.exists => ext_result = raised(NotFoundError)
          /\ (source.exists /\ source.size = "zero") =>
                ext_result = raised(EmptySourceError)
          /\ (SourceValid /\ output_dir.failed # "none") =>
                /\ ext_pc = "raised"
                /\ ext_result.error.type = "PermissionError"
                /\ frame_log = <<>>

\* the image in the file of source frame i
Saved(i) ==
    (CHOOSE f \in output_dir.files : f.name = frame_filename(i)).image

\* source frame i brought to RGB, with no enhancement pass applied
PreEnhancement(i) ==
    picture(i, IF source.mode \in {"RGBA", "P"} THEN "RGB" ELSE source.mode,
            <<>>)

\* C16 as stated: a frame one of whose enhancement passes failed, and whose
\* save went through, is on disk, is listed in the result, and what is on
\* disk is the colour-normalized frame with none of the three passes
\* applied.
C16_AsStated ==
    \A i \in SourceIndices :
        (/\ i + 1 <= Len(frame_log)
         /\ frame_log[i + 1].lost = "no"
         /\ frame_log[i + 1].failed_pass # 0) =>
            /\ OnDisk(i)
            /\ \E k \in 1..Len(saved_paths) :
                  saved_paths[k] = frame_filename(i)
            /\ Saved(i) = PreEnhancement(i)

\* the names of the files the call created under output_dir and left there
LeftBehind ==
    {f.name : f \in output_dir.files}

\* C17 as stated: once the call has returned N paths, the files it created
\* under output_dir are those N frame files and no other: no '.write_test'
\* marker, and no file of a frame that was dropped.
C17_AsStated ==
    ext_pc = "returned" =>
        /\ LeftBehind = {ext_result.paths[k] : k \in 1..Len(ext_result.paths)}
        /\ Cardinality(output_dir.files) = Len(ext_result.paths)
        /\ test_file \notin LeftBehind
        /\ \A i \in SourceIndices :
              ~(OnDisk(i) /\ Survived(i)) => frame_filename(i) \notin LeftBehind

---------------------------------------------------------------------------
(* Extraction followed by recognition (specification SpecPipeline). *)

\* the records of the response that stand for a frame of the session
FrameRecords ==
    {k \in 1..Len(app_results) :
        \E j \in 1..Len(session_paths) :
            app_results[k].frame_path = session_paths[j]}

\* C18 as stated: after extraction and recognition, the record of every
\* frame carries the 0-based source index of that frame plus one, whatever
\* frames the extractor dropped.
C18_AsStated ==
    (app_pc = "answered" /\ ~escaped) =>
        \A k \in FrameRecords :
            app_results[k].frame_number =
                IndexOf(app_results[k].frame_path) + 1

---------------------------------------------------------------------------
(* The frame budget of process_frames (specification SpecApp). *)

\* number of paths in the session
NSession ==
    Len(session_paths)

\* the paths of the records that stand for a frame, in the order of the
\* response: every record but the synthetic one
RECURSIVE PathsOf(_)
PathsOf(results) ==
    IF results = <<>> THEN <<>>
    ELSE IF Head(results).frame_path = "combined_analysis"
         THEN PathsOf(Tail(results))
         ELSE <<Head(results).frame_path>> \o PathsOf(Tail(results))

\* at most 30 paths were sent, the first ones, in order
SentFirstThirty ==
    /\ Len(sent) <= 30
    /\ Len(sent) = IF NSession < 30 THEN NSession ELSE 30
    /\ \A k \in 1..Len(sent) : sent[k] = session_paths[k]

\* each path at 0-based index i >= 30 has one record, the placeholder
\* numbered i + 1
RestSkipped ==
    \A i \in 30..(NSession - 1) :
        /\ Cardinality({k \in 1..Len(app_results) :
              app_results[k].frame_path = session_paths[i + 1]}) = 1
        /\ \E k \in 1..Len(app_results) :
              app_results[k] = [frame_number |-> i + 1,
                                frame_path |-> session_paths[i + 1],
                                text |-> FRAME_SKIPPED]

\* C20 as stated: once process_frames has made the OCR call, it has sent
\* the first 30 paths at most, every later path has its placeholder record,
\* and the response holds exactly one real or placeholder record per path of
\* the session, in path order.
C20_AsStated ==
    app_pc = "answered" =>
        /\ SentFirstThirty
        /\ RestSkipped
        /\ PathsOf(app_results) = session_paths

\* C20, amended: as stated when perform_ocr_on_frames did not end in its
\* fatal handler, the synthetic record, if there is one, standing between
\* the real records and the placeholders; when it did, the response is its
\* one-element list followed by the placeholders.
C20_FrameBudget ==
    app_pc = "answered" =>
        /\ SentFirstThirty
        /\ RestSkipped
        /\ ~escaped =>
              /\ PathsOf(app_results) = session_paths
              /\ \A k \in 1..Len(app_results) :
                    app_results[k].frame_path = "combined_analysis" =>
                        k = Len(sent) + 1
        /\ escaped =>
              /\ Len(app_results) = 1 + NSession - Len(sent)
              /\ app_results[1] = [frame_number |-> 1,
                                   frame_path |-> session_paths[1],
                                   text |-> BATCH_FAILED]

\* 31 paths, 30 read, a synthetic record, and the placeholder of path 31
C20_Witness ==
    /\ app_pc = "answered"
    /\ ~escaped
    /\ NSession = 31
    /\ Len(sent) = 30
    /\ Len(app_results) = 32
    /\ app_results[31].frame_path = "combined_analysis"
    /\ app_results[32].text = FRAME_SKIPPED
    /\ app_results[32].frame_number = 31

---------------------------------------------------------------------------
(* The frame files under recognition (specification Spec). *)

\* C19: at every point of a perform_ocr_on_frames call, whatever each
\* perform_ocr_on_frame met and returned, the frame files are those that
\* were there when the call began: a file is absent only if it was removed
\* before the call, and the list of paths is the one given.
C19_FramesOnlyRead ==
    pc \in {"start", "loop", "summary", "except", "done"} =>
        /\ Len(files) = Len(frames_paths)
        /\ \A i \in 1..Len(frames_paths) : files[i] <=> i \notin deleted
        /\ \A i \in 1..Len(frames_paths) : frames_paths[i] = FramePool[i]

\* three frames, the second removed before the call, which went through
\* all three and reported an error for the second
C19_Witness ==
    /\ ReturnedNormally
    /\ NPaths = 3
    /\ deleted = {2}
    /\ files = <<TRUE, FALSE, TRUE>>
    /\ Len(returned) >= 3
    /\ returned[2].text = FRAME_NOT_FOUND
    /\ ~BeginsWithError(returned[1].text)

---------------------------------------------------------------------------
(* Two runs on the same source (specification SpecTwice). *)

\* the source indices of a sequence of returned paths, in order
IndicesOf(paths) ==
    [k \in 1..Len(paths) |-> IndexOf(paths[k])]

---------------------------------------------------------------------------
(* The three attempts of one frame (specification SpecFrame). *)

\* how many times the engine was asked to recognise
Attempts ==
    Cardinality({k \in 1..Len(frame_ret.calls) :
                    frame_ret.calls[k] = "image_to_string"})

\* the attempts that returned text which is not blank
Candidates ==
    {k \in 1..3 : frame_env.ocr[k] # Raises /\ Trimmed(k) # <<>>}

\* C22: once the preconditions pass and the frame opens, all three
\* attempts are made whatever the earlier ones did; nothing is raised; an
\* attempt that raised is no candidate; the result is the longest candidate,
\* the earliest among equally long ones, and "No text detected" when there
\* is none, in particular when all three attempts raised.
C22_AttemptsIndependent ==
    (FrameReturned /\ Attempting) =>
        /\ Attempts = 3
        /\ ~frame_ret.raised
        /\ Candidates = {} =>
              /\ frame_ret.text = NO_TEXT
              /\ ~BeginsWithError(frame_ret.text)
        /\ Candidates # {} =>
              \E k \in Candidates :
                  /\ frame_ret.text = Trimmed(k)
                  /\ \A j \in Candidates :
                        \/ Len(Trimmed(j)) < Len(Trimmed(k))
                        \/ (Len(Trimmed(j)) = Len(Trimmed(k)) /\ j >= k)

\* all three attempts raised
C22_Witness ==
    /\ FrameReturned
    /\ Attempting
    /\ \A k \in 1..3 : frame_env.ocr[k] = Raises
    /\ Attempts = 3
    /\ frame_ret.text = NO_TEXT

---------------------------------------------------------------------------
(* A frame whose call raised (specification SpecCall). *)

\* the iterations finished so far in which perform_ocr_on_frame, or the
\* classification of what it returned, raised
Raised ==
    {i \in 1..Len(struck) : struck[i] = "call"}

\* the records the loop holds for the path at position i
RecordsOf(i) ==
    {k \in 1..Len(ocr_results) : ocr_results[k].frame_path = frames_paths[i]}

\* C23: when the call or the classification raised for the frame at
\* position i, the loop holds exactly one record for it, at position i:
\* (i, paths[i], BATCH_FAILED); it is counted among the errors; the
\* exception did not leave the loop, which goes on with frame i+1 (or with
\* the analysis after the last frame); and the list returned in the end
\* still has that record at position i.
C23_RaisedFrameRecorded ==
    /\ \A i \in Raised :
          /\ i <= Len(ocr_results)
          /\ ocr_results[i] = [frame_number |-> i,
                               frame_path |-> frames_paths[i],
                               text |-> BATCH_FAILED]
          /\ RecordsOf(i) = {i}
          /\ (Len(struck) = i) =>
                (pc \in {"loop", "summary", "done"} /\ idx = i /\ ~escaped)
          /\ ReturnedNormally =>
                (Len(returned) >= i /\ returned[i] = ocr_results[i])
    /\ pc \in {"loop", "summary"} =>
          error_count >= Cardinality(Raised)
    /\ (pc = "loop" /\ \A i \in 1..Len(struck) : struck[i] = "call") =>
          (error_count = Len(struck) /\ success_count = 0 /\ empty_count = 0)

\* three frames, the call of the second raised, the third was read after it
C23_Witness ==
    /\ ReturnedNormally
    /\ NPaths = 3
    /\ struck = <<"none", "call", "none">>
    /\ returned[1].text = OutAB
    /\ returned[2].text = BATCH_FAILED
    /\ returned[3].text = OutNothing
    /\ error_count = 1

---------------------------------------------------------------------------
(* The tallies of the batch (specification SpecCall). *)

\* the tally each record held so far belongs to, by its text: "error" when
\* it begins with "Error:", "empty" when it is "No text detected" or "",
\* "success" otherwise; the synthetic record belongs to none
TallyOfRecords ==
    [k \in 1..Len(ocr_results) |->
        IF ocr_results[k].frame_path = COMBINED_PATH THEN "none"
        ELSE IF BeginsWithError(ocr_results[k].text) THEN "error"
        ELSE IF ocr_results[k].text = NO_TEXT \/ ocr_results[k].text = <<>>
        THEN "empty"
        ELSE "success"]

\* C24: while the loop runs and after it has ended, every real record is
\* counted in exactly one tally, the one of its text: the three tallies are
\* the numbers of "Error:" records, of empty records and of the others, and
\* they add up to the number of frames gone through, len(paths) when the
\* loop has ended. The real records are one per frame gone through, in path
\* order, whatever the tallies are.
C24_TalliesPartition ==
    (pc \in {"loop", "summary", "done"} /\ ~escaped /\ frames_paths # <<>>) =>
        /\ LET kinds == TallyOfRecords
                tallied(name) == Cardinality({k \in DOMAIN kinds :
                                                 kinds[k] = name})
           IN  /\ error_count = tallied("error")
               /\ empty_count = tallied("empty")
               /\ success_count = tallied("success")
        /\ error_count + empty_count + success_count = idx
        /\ pc \in {"summary", "done"} =>
              error_count + empty_count + success_count = NPaths
        /\ Len(ocr_results) >= idx
        /\ \A i \in 1..idx :
              /\ ocr_results[i].frame_number = i
              /\ ocr_results[i].frame_path = frames_paths[i]

\* three frames: an error, no text, and a text
C24_Witness ==
    /\ pc = "done"
    /\ ~escaped
    /\ NPaths = 3
    /\ ocr_results[1].text = FRAME_EMPTY
    /\ ocr_results[2].text = NO_TEXT
    /\ ocr_results[3].text = OutC123
    /\ error_count = 1 /\ empty_count = 1 /\ success_count = 1

---------------------------------------------------------------------------
(* Recognised text that looks like a sentinel (specification SpecCall). *)

\* the texts the program itself writes for a frame that failed: the
\* precondition failures, the invalid image, and the two generic texts for
\* an exception
FailureTexts ==
    {TESSERACT_UNAVAILABLE, FRAME_NOT_FOUND, FRAME_EMPTY,
     INVALID_IMAGE \o IMG_ERR, FRAME_FAILED, BATCH_FAILED}

\* the real records whose text is neither a failure text nor "No text
\* detected": the engine recognised it in the frame
RecognisedRecords ==
    LET recognised(r) == r.text \notin FailureTexts /\ r.text # NO_TEXT
    IN  SelectSeq(SubSeq(ocr_results, 1, NPaths), recognised)

\* C25 as stated: a real record's text begins with "Error:" only if the
\* frame failed; every frame in which text was recognised is tallied as a
\* success, and its text is among those the combined analysis joins,
\* whatever its characters are.
C25_AsStated ==
    (pc \in {"summary", "done"} /\ ~escaped /\ frames_paths # <<>>) =>
        /\ \A i \in 1..NPaths :
              BeginsWithError(ocr_results[i].text) =>
                  ocr_results[i].text \in FailureTexts
        /\ success_count = Len(RecognisedRecords)
        /\ analysed_texts(SubSeq(ocr_results, 1, NPaths)) = RecognisedRecords

---------------------------------------------------------------------------
(* The run the synthetic record quotes (specification SpecCall). *)

\* the text between the quotes of the synthetic record, the last element
QuotedRun ==
    LET text == returned[Len(returned)].text
    IN  SubSeq(text, Len(COMBINED_HEAD) + 1, Len(text) - Len(COMBINED_TAIL))

\* run stands in text as a contiguous substring
OccursIn(run, text) ==
    \E a \in 1..(Len(text) - Len(run) + 1) :
        SubSeq(text, a, a + Len(run) - 1) = run

\* C26: when the returned list ends with the synthetic record, its text is
\* the fixed head, a run, and the closing quote; the run holds only ASCII
\* letters and digits, is at least 4 long, and stands whole inside the text
\* of one real record that is neither an "Error:" text nor "No text
\* detected": it never runs across two frames.
C26_RunWithinOneFrame ==
    (/\ ReturnedNormally
     /\ Len(returned) = NPaths + 1
     /\ returned[Len(returned)].frame_path = COMBINED_PATH) =>
        LET text == returned[Len(returned)].text
            run == QuotedRun
        IN  /\ text = COMBINED_HEAD \o run \o COMBINED_TAIL
            /\ \A k \in 1..Len(run) : run[k] \in Alnum
            /\ Len(run) >= 4
            /\ \E i \in 1..NPaths :
                  /\ ~Reserved(returned[i].text)
                  /\ OccursIn(run, returned[i].text)

\* "AB" then "C123 extra": the record quotes "extra", not a run across the
\* two texts
C26_Witness ==
    /\ ReturnedNormally
    /\ NPaths = 2
    /\ returned[1].text = OutAB
    /\ returned[2].text = OutC123
    /\ Len(returned) = 3
    /\ QuotedRun = <<"e", "x", "t", "r", "a">>

---------------------------------------------------------------------------
(* The list process_frames answers with (specification SpecApp). *)

\* frame_number increases strictly along the list, and a record with the
\* path "combined_analysis" is its last element
WellNumbered(results) ==
    /\ \A k \in 1..(Len(results) - 1) :
          results[k].frame_number < results[k + 1].frame_number
    /\ \A k \in 1..Len(results) :
          results[k].frame_path = COMBINED_PATH => k = Len(results)

\* C27 as stated: for any number of extracted frames, more than 30
\* included, the frame_number values of the list process_frames builds are
\* pairwise distinct and increase strictly in list order, and a
\* "combined_analysis" record, if there is one, is the last element.
C27_AsStated ==
    app_pc = "answered" => WellNumbered(app_results)

---------------------------------------------------------------------------
(* The count process_frames reports (specification SpecApp). *)

\* the number of frames the engine was given whose record carries recognised
\* text: neither a failure text nor "No text detected"
FramesWithText ==
    Cardinality({k \in 1..Len(app_results) :
                    /\ \E i \in 1..Len(sent) :
                          app_results[k].frame_path = sent[i]
                    /\ app_results[k].text \notin FailureTexts
                    /\ app_results[k].text # NO_TEXT})

\* C28 as stated: the success count process_frames computes and reports
\* ("Found text in k frames") equals the number of extracted frames whose
\* OCR returned recognised text; the placeholder records of skipped frames
\* and the synthetic "combined_analysis" record are not counted, and the
\* count is 0 when no frame had text.
C28_AsStated ==
    (app_pc = "answered" /\ response.success) =>
        /\ response.found = FramesWithText
        /\ (response.message = found_text(response.found))
              = (FramesWithText > 0)

---------------------------------------------------------------------------
(* One session over its requests (specification SpecSession). *)

\* the answers /upload gives before it looks at the session
EarlyRejections ==
    {NO_FILE_PART, NO_FILE_SELECTED, NOT_ALLOWED, TOO_LARGE}

\* C29: over any sequence of /upload, /process, /export and /cleanup
\* requests, /export sends a file only when ocr_results is in the session,
\* and the file holds that list; ocr_results is in the session only as the
\* non-empty list a /process stored for the current upload, the last one that
\* made a session_id; and an upload that gets as far as making its session_id
\* leaves no ocr_results behind, and frames_paths only when it succeeded, so
\* no file holds the results of an earlier upload.
C29_ExportsCurrentUpload ==
    /\ (response.route = "export" /\ response.status = 200) =>
          /\ session.ocr_results # <<>>
          /\ response.results = session.ocr_results
          /\ response.of = history.uploads
    /\ session.ocr_results # <<>> =>
          /\ session.session_id = history.uploads
          /\ session.results_of = history.uploads
          /\ session_paths # <<>>
    /\ (response.route = "upload" /\ response.message \notin EarlyRejections)
          => /\ session.ocr_results = <<>>
             /\ session.session_id = history.uploads
             /\ (session_paths # <<>> => response.success)

\* a file was sent for the second upload, which found the session of the
\* first and cleared it, although removing the old files failed
C29_Witness ==
    /\ response.route = "export"
    /\ response.status = 200
    /\ history.uploads = 2
    /\ history.removal = "raises"
    /\ response.of = 2
    /\ Len(response.results) = 3
    /\ response.results[3].frame_path = COMBINED_PATH

\* C30: cleanup ends with an empty session whether or not removing the
\* files failed; from then until an upload succeeds, /process answers
\* success false with "No active image processing session" and no results,
\* without calling the OCR, and /export answers with status 400.
C30_CleanupEmptiesSession ==
    /\ response.route = "cleanup" =>
          /\ session = EmptySession
          /\ session_paths = <<>>
    /\ history.cleaned =>
          /\ session_paths = <<>>
          /\ session.ocr_results = <<>>
          /\ response.route = "process" =>
                response = json("process", 200, FALSE, NO_SESSION)
          /\ response.route = "export" => response.status = 400

\* /process was refused after a cleanup whose removal failed and an upload
\* that made a session_id and then failed
C30_Witness ==
    /\ history.cleaned
    /\ history.removal = "raises"
    /\ history.uploads = 2
    /\ session.session_id = 2
    /\ session.file_path
    /\ response = json("process", 200, FALSE, NO_SESSION)

====
